---- MODULE Spec2Model ----
(***************************************************************************)
(* Segment / wall connectivity and wall mesh generation of lifescape.      *)
(*                                                                         *)
(* Two connectivity drivers live in the repository and both are modelled   *)
(* over the same world state:                                              *)
(*   SpecSegment: base/src/game_world/segment.rs (update_connections,      *)
(*                cleanup_connections, disconnect_all)                     *)
(*   SpecWall:    src/core/wall.rs (WallPlugin::cleanup_system,            *)
(*                WallPlugin::connections_update_system)                   *)
(* Between two passes any number of segments is spawned and at most        *)
(* MaxEdits edits of existing segments are applied; entity ids are         *)
(* allocated in order and never reused; all segments share one parent lot. *)
(*                                                                         *)
(* The mesh generators are modelled for one wall entity whose components   *)
(* are written between calls (at most MaxEdits writes):                    *)
(*   SpecMesh:     src/core/wall/wall_mesh.rs (WallMesh::generate) with    *)
(*                 the Triangulator of triangulator.rs                     *)
(*   SpecWallMesh: src/core/wall.rs (mesh_update_system, generate_wall)    *)
(* Coordinates of generated vertices are symbolic terms over the inputs.   *)
(*                                                                         *)
(*   SpecWallFrame: src/core/wall.rs, one frame of the chained systems     *)
(*                  cleanup, connections update and mesh update            *)
(*                                                                         *)
(* Functions without state are called once per behaviour on inputs drawn   *)
(* from small sets; the call and its result are kept in the variable call: *)
(*   SpecOffset:       offset_points of wall_mesh.rs, segment.rs, wall.rs  *)
(*   SpecCollider:     generate_collider of wall_mesh.rs                   *)
(*   SpecContains:     Segment::contains of segment.rs                     *)
(*   SpecTriangulator: sequences of add_hole and triangulate calls on one  *)
(*                     Triangulator of triangulator.rs                     *)
(*   SpecIntersection: line_intersection of segment.rs and Line of wall.rs  *)
(*   SpecColliderOnWall: generate_collider on the apertures of one wall     *)
(*                                                                          *)
(* Other systems of the game, each with variables of its own:               *)
(*   SpecFamily:  src/core/family.rs (family_sync_system)                   *)
(*   SpecTask:    game_world/actor/task/linked_task.rs (LinkedTaskPlugin)   *)
(*   SpecTracker: src/core/network/replication/despawn_tracker.rs           *)
(*   SpecLot:     game_world/city/lot/creating_lot.rs (CreatingLotPlugin)   *)
(***************************************************************************)
EXTENDS Integers, Sequences, FiniteSets, TLC

\* Number of entity ids the world can allocate (ids are never reused).
MaxEnt == 2

\* Number of edits of existing entities (endpoint write, hide, show, despawn)
\* between two passes; spawns are bounded by MaxEnt alone.
MaxEdits == 1

\* Largest number of connection records at one end of the meshed wall.
MaxNeighbours == 2

\* Largest number of apertures (doors, windows) in the meshed wall.
MaxApertures == 2

\* Number of points in the cutout polygon of an aperture.
CutoutLen == 3
MaxDolls == 2
MaxTasks == 2
MaxReplicated == 2
MaxClients == 2
MaxUpdates == 3
WallLength == 6
MaxVertices == 4

\* Endpoint positions (Vec2) segments are drawn between.
Points == {<<0, 0>>, <<1, 0>>, <<0, 1>>}

Entities == 1..MaxEnt

VARIABLES
    spawned,    \* number of entity ids allocated so far
    alive,      \* entities that currently exist
    segs,       \* entity -> Segment / Wall component
    vis,        \* entity -> Visibility component
    children,   \* Children of the parent lot, in insertion order
    conns,      \* entity -> SegmentConnections / WallConnections component
    changed,    \* entities whose Segment (or Visibility) changed since the last pass
    removed,    \* RemovedComponents<Wall> not yet read by cleanup_system
    edits       \* edits applied since the last pass

connVars == <<spawned, alive, segs, vis, children, conns, changed, removed, edits>>

\* One wall entity seen by the mesh generator of wall_mesh.rs
VARIABLES
    wall,           \* its Wall component
    wall_connections, \* its WallConnections component
    apertures,      \* its Apertures component
    mesh,           \* the WallMesh buffers taken from / applied to its Mesh asset
    triangulator,   \* the Triangulator local of the mesh system, reused by every call
    stale           \* writes to wall, connections or apertures since the last generate

meshVars == <<wall, wall_connections, apertures, mesh, triangulator, stale>>

\* The last frame of the wall systems of wall.rs; a later write to the world
\* starts the next frame and clears both.
VARIABLES
    regenerated,    \* wall -> its mesh, for the walls mesh_update_system regenerated
    updated         \* walls connections_update_system iterated

frameVars == <<regenerated, updated>>

\* One call of a pure function of the generators: [fn, args, result]
VARIABLES call

worldVars == <<connVars, meshVars, frameVars>>

\* family.rs: the components of the dolls and of the families
VARIABLES
    family_sync,    \* doll -> family of its FamilySync component, or NoFamily
    family,         \* doll -> family of its Family component, or NoFamily
    dolls,          \* family -> the Vec of its Dolls component
    has_dolls,      \* the families that have a Dolls component
    sync_changed,   \* the dolls matched by Changed<FamilySync>
    panicked        \* an expect of a system has failed

familyVars == <<family_sync, family, dolls, has_dolls, sync_changed, panicked>>

\* linked_task.rs: the components of the tasks
VARIABLES
    task_state,     \* task -> its TaskState
    linked,         \* task -> the entity of its LinkedTask component, or NoTask
    link_added,     \* the tasks matched by Added<LinkedTask>
    state_changed,  \* the tasks whose TaskState is_changed() for sync_states
    task_failed     \* the expect of sync_states has failed

taskVars == <<task_state, linked, link_added, state_changed, task_failed>>

\* despawn_tracker.rs: the replicated entities, the tracker and the acknowledgements
VARIABLES
    replicated,         \* entity -> "none", "alive" or "despawned"
    new_replicated,     \* the entities matched by Added<Replication>
    tracked_entities,   \* DespawnTracker.tracked_entities
    despawns,           \* DespawnTracker.despawns
    client_acks,        \* AckedTicks: client -> last acknowledged tick, NoAck if absent
    change_tick,        \* the change tick of the world
    ran                 \* the systems of the plugin that have run in the update

trackerVars == <<replicated, new_replicated, tracked_entities, despawns,
                 client_acks, change_tick, ran>>

\* creating_lot.rs: the lot being created and the event sent
VARIABLES
    creating_lot,   \* an entity with CreatingLot exists
    lot_vertices,   \* its LotVertices
    lot_create      \* the polygon of the last LotCreate event sent, NoPolygon if none

lotVars == <<creating_lot, lot_vertices, lot_create>>

gameVars == <<familyVars, taskVars, trackerVars, lotVars>>

vars == <<worldVars, call, gameVars>>

----------------------------------------------------------------------------
\* Segment, PointKind

PointKind == {"Start", "End"}

Segment(s, e) == [start |-> s, end |-> e]

splat(p) == Segment(p, p)

point(seg, kind) == IF kind = "Start" THEN seg.start ELSE seg.end

set_point(seg, kind, p) ==
    IF kind = "Start" THEN [seg EXCEPT !.start = p] ELSE [seg EXCEPT !.end = p]

is_zero(seg) == seg.start = seg.end

inverse(seg) == Segment(seg.end, seg.start)

kind_inverse(kind) == IF kind = "Start" THEN "End" ELSE "Start"

displacement(seg) == <<seg.end[1] - seg.start[1], seg.end[2] - seg.start[2]>>

perp_dot(a, b) == a[1] * b[2] - a[2] * b[1]

----------------------------------------------------------------------------
\* SegmentConnections / WallConnections

SegmentConnection(entity, segment, kind) ==
    [entity |-> entity, segment |-> segment, kind |-> kind]

EmptyConnections == [start |-> <<>>, end |-> <<>>]

get(c, kind) == IF kind = "Start" THEN c.start ELSE c.end

\* get_mut(kind).push(connection)
push(c, kind, connection) ==
    IF kind = "Start"
    THEN [c EXCEPT !.start = Append(@, connection)]
    ELSE [c EXCEPT !.end = Append(@, connection)]

\* Vec::remove(index), 1-based
RemoveAt(list, index) ==
    [i \in 1..(Len(list) - 1) |-> IF i < index THEN list[i] ELSE list[i + 1]]

\* iter().position(|c| c.entity == entity): first index, or 0 for None
IndexOf(list, entity) ==
    IF \E i \in 1..Len(list) : list[i].entity = entity
    THEN CHOOSE i \in 1..Len(list) :
            /\ list[i].entity = entity
            /\ \A j \in 1..(i - 1) : list[j].entity # entity
    ELSE 0

\* Faulty variant: only the Start list of the neighbour is searched.
remove_back_reference_start_only(c, disconnect_entity) ==
    LET i == IndexOf(c.start, disconnect_entity)
    IN  IF i > 0 THEN [c EXCEPT !.start = RemoveAt(@, i)] ELSE c

\* disconnect_all, inner loop: for other_kind in [Start, End], remove the
\* first record of disconnect_entity and stop at the first match.
remove_back_reference(c, disconnect_entity) ==
    LET i == IndexOf(c.start, disconnect_entity)
        j == IndexOf(c.end, disconnect_entity)
    IN  IF i > 0 THEN [c EXCEPT !.start = RemoveAt(@, i)]
        ELSE IF j > 0 THEN [c EXCEPT !.end = RemoveAt(@, j)]
        ELSE c

\* WallConnections::position: <<kind, index>>, kind "None" when absent
position(c, entity) ==
    LET i == IndexOf(c.start, entity)
        j == IndexOf(c.end, entity)
    IN  IF i > 0 THEN <<"Start", i>>
        ELSE IF j > 0 THEN <<"End", j>>
        ELSE <<"None", 0>>

\* WallConnections::remove
remove(c, kind, index) ==
    IF kind = "Start"
    THEN [c EXCEPT !.start = RemoveAt(@, index)]
    ELSE [c EXCEPT !.end = RemoveAt(@, index)]

\* if let Some((point, index)) = c.position(entity) { c.remove(point, index) }
remove_if_present(c, entity) ==
    LET p == position(c, entity)
    IN  IF p[1] = "None" THEN c ELSE remove(c, p[1], p[2])

----------------------------------------------------------------------------
\* segment.rs: disconnect_all, update_connections

RECURSIVE sever(_, _, _)
\* for connection in taken.drain(..): remove the back reference in the neighbour
sever(cs, disconnect_entity, taken) ==
    IF taken = <<>> THEN cs
    ELSE LET other == Head(taken).entity
         IN  sever([cs EXCEPT ![other] = remove_back_reference(@, disconnect_entity)],
                   disconnect_entity, Tail(taken))

\* Faulty variant: the component is taken but the neighbours keep their back references.
disconnect_all_own_only(cs, disconnect_entity) ==
    [cs EXCEPT ![disconnect_entity] = EmptyConnections]

\* The component is taken (left Default), then both lists are drained.
disconnect_all(cs, disconnect_entity) ==
    LET taken == cs[disconnect_entity]
    IN  sever([cs EXCEPT ![disconnect_entity] = EmptyConnections],
              disconnect_entity, taken.start \o taken.end)

\* Faulty variant: the End of the segment is tried before its Start.
pairing_end_first(segment, other_segment) ==
    IF segment.end = other_segment.end THEN <<"End", "End">>
    ELSE IF segment.end = other_segment.start THEN <<"End", "Start">>
    ELSE IF segment.start = other_segment.start THEN <<"Start", "Start">>
    ELSE IF segment.start = other_segment.end THEN <<"Start", "End">>
    ELSE <<"None", "None">>

\* The if / else-if chain over the four endpoint pairings: <<from, to>>
pairing(segment, other_segment) ==
    IF segment.start = other_segment.start THEN <<"Start", "Start">>
    ELSE IF segment.start = other_segment.end THEN <<"Start", "End">>
    ELSE IF segment.end = other_segment.end THEN <<"End", "End">>
    ELSE IF segment.end = other_segment.start THEN <<"End", "Start">>
    ELSE <<"None", "None">>

\* Faulty variant: the neighbour's record goes to the list of this segment's endpoint kind.
connect_same_list(w, segment_entity, other_entity, from, to) ==
    [world |-> [w.world EXCEPT ![other_entity] =
                    push(@, from, SegmentConnection(segment_entity, segs[segment_entity], from))],
     taken |-> push(w.taken, from,
                    SegmentConnection(other_entity, segs[other_entity], to))]

\* One matched sibling: push the record pair.
connect(w, segment_entity, other_entity, from, to) ==
    [world |-> [w.world EXCEPT ![other_entity] =
                    push(@, to, SegmentConnection(segment_entity, segs[segment_entity], from))],
     taken |-> push(w.taken, from,
                    SegmentConnection(other_entity, segs[other_entity], to))]

\* Faulty variant: hidden siblings are scanned like visible ones.
skip_self_only(segment_entity, other_entity) == segment_entity = other_entity

\* iter_many_mut's filter in update_connections: hidden siblings and self are skipped
skip_sibling(segment_entity, other_entity) ==
    vis[other_entity] = "Hidden" \/ segment_entity = other_entity

RECURSIVE scan_siblings(_, _, _)
\* while let Some(..) = iter.fetch_next() over the parent's Children from index i
scan_siblings(w, segment_entity, i) ==
    IF i > Len(children) THEN w
    ELSE LET other_entity == children[i]
             p == pairing(segs[segment_entity], segs[other_entity])
         IN  IF skip_sibling(segment_entity, other_entity) \/ p[1] = "None"
             THEN scan_siblings(w, segment_entity, i + 1)
             ELSE scan_siblings(connect(w, segment_entity, other_entity, p[1], p[2]),
                                segment_entity, i + 1)

\* "If segment have zero length or hidden, exclude it from connections."
takes_part(segment_entity) ==
    segs[segment_entity].start # segs[segment_entity].end
        /\ vis[segment_entity] # "Hidden"

\* Faulty variant: the old records are kept and the new ones added to them.
update_segment_keeping_old(cs, segment_entity) ==
    LET w0 == [world |-> cs, taken |-> cs[segment_entity]]
        w  == IF takes_part(segment_entity)
              THEN scan_siblings(w0, segment_entity, 1)
              ELSE w0
    IN  [w.world EXCEPT ![segment_entity] = w.taken]

\* Body of the loop over changed_segments, for one changed segment.
update_segment(cs, segment_entity) ==
    LET w0 == [world |-> disconnect_all(cs, segment_entity), taken |-> EmptyConnections]
        w  == IF takes_part(segment_entity)
              THEN scan_siblings(w0, segment_entity, 1)
              ELSE w0
    IN  [w.world EXCEPT ![segment_entity] = w.taken]

RECURSIVE update_connections(_, _)
\* for .. in &changed_segments, in the query's iteration order
update_connections(cs, order) ==
    IF order = <<>> THEN cs
    ELSE update_connections(update_segment(cs, Head(order)), Tail(order))

----------------------------------------------------------------------------
\* wall.rs: cleanup_system, connections_update_system

RECURSIVE cleanup_old(_, _, _)
\* for other_entity in connections.drain(): position + remove in the neighbour
cleanup_old(cs, wall_entity, drained) ==
    IF drained = <<>> THEN cs
    ELSE LET other_entity == Head(drained).entity
         IN  cleanup_old([cs EXCEPT ![other_entity] = remove_if_present(@, wall_entity)],
                         wall_entity, Tail(drained))

\* fetch_next().filter(|(entity, ..)| entity != wall_entity): the Option is
\* None at the wall itself, which ends the while-let loop.
scan_ends(wall_entity, other_entity) == other_entity = wall_entity

RECURSIVE scan_walls(_, _, _)
scan_walls(w, wall_entity, i) ==
    IF i > Len(children) THEN w
    ELSE LET other_entity == children[i]
             p == pairing(segs[wall_entity], segs[other_entity])
         IN  IF scan_ends(wall_entity, other_entity) THEN w
             ELSE IF p[1] = "None" THEN scan_walls(w, wall_entity, i + 1)
             ELSE scan_walls(connect(w, wall_entity, other_entity, p[1], p[2]),
                             wall_entity, i + 1)

\* "If wall have zero length, exclude it from connections."
wall_takes_part(wall_entity) == segs[wall_entity].start # segs[wall_entity].end

\* Faulty variant: the neighbours keep the records they hold of the wall.
update_wall_without_cleanup(cs, wall_entity) ==
    LET w0 == [world |-> [cs EXCEPT ![wall_entity] = EmptyConnections],
               taken |-> EmptyConnections]
        w  == IF wall_takes_part(wall_entity) THEN scan_walls(w0, wall_entity, 1) ELSE w0
    IN  [w.world EXCEPT ![wall_entity] = w.taken]

\* Body of the loop over changed_walls, for one changed wall.
update_wall(cs, wall_entity) ==
    LET connections == cs[wall_entity]
        w0 == [world |-> cleanup_old([cs EXCEPT ![wall_entity] = EmptyConnections],
                                     wall_entity, connections.start \o connections.end),
               taken |-> EmptyConnections]
        w  == IF wall_takes_part(wall_entity) THEN scan_walls(w0, wall_entity, 1) ELSE w0
    IN  [w.world EXCEPT ![wall_entity] = w.taken]

RECURSIVE connections_update_system(_, _)
connections_update_system(cs, order) ==
    IF order = <<>> THEN cs
    ELSE connections_update_system(update_wall(cs, Head(order)), Tail(order))

RECURSIVE cleanup_system(_, _)
\* for entity in removed_walls.read() { for connections in &mut walls { .. } }
cleanup_system(cs, removed_walls) ==
    IF removed_walls = <<>> THEN cs
    ELSE cleanup_system(
            [e \in Entities |-> IF e \in alive
                                THEN remove_if_present(cs[e], Head(removed_walls))
                                ELSE cs[e]],
            Tail(removed_walls))

\* Faulty variant: the snapshot is inverted by the kind of the own endpoint.
unified_by_own_kind(point_kind, connection) ==
    IF point_kind = "End" THEN inverse(connection.segment) ELSE connection.segment

\* The match on (point_kind, connection.kind) of get_unified and of both minmax_angles
unified(point_kind, connection) ==
    IF point_kind = "Start" /\ connection.kind = "End" THEN inverse(connection.segment)
    ELSE IF point_kind = "End" /\ connection.kind = "Start" THEN connection.segment
    ELSE IF point_kind = "Start" /\ connection.kind = "Start" THEN connection.segment
    ELSE inverse(connection.segment)

\* self.get(point_kind).iter().map(..)
get_unified(c, point_kind) ==
    [i \in DOMAIN get(c, point_kind) |-> unified(point_kind, get(c, point_kind)[i])]

\* Change detection of WallConnections (Mut<WallConnections> is marked changed
\* by DerefMut only: mem::take, remove and push; position reads through Deref).

\* Entities with a record in the lists of c
connected_entities(c) ==
    {c.start[i].entity : i \in DOMAIN c.start} \cup {c.end[i].entity : i \in DOMAIN c.end}

\* Faulty variant: only the taken component of the changed wall is marked.
marked_by_update_own_only(cs, wall_entity) == {wall_entity}

\* WallConnections marked changed while connections_update_system handles wall_entity
marked_by_update(cs, wall_entity) ==
    {wall_entity}
    \cup {other_entity \in connected_entities(cs[wall_entity]) :
            position(cs[other_entity], wall_entity)[1] # "None"}
    \cup connected_entities(update_wall(cs, wall_entity)[wall_entity])

RECURSIVE marked_by_updates(_, _)
marked_by_updates(cs, order) ==
    IF order = <<>> THEN {}
    ELSE marked_by_update(cs, Head(order))
            \cup marked_by_updates(update_wall(cs, Head(order)), Tail(order))

\* WallConnections marked changed by cleanup_system
marked_by_cleanup(cs, removed_walls) ==
    {e \in alive : \E i \in DOMAIN removed_walls :
        position(cs[e], removed_walls[i])[1] # "None"}

----------------------------------------------------------------------------
\* triangulator.rs: Triangulator (wall_mesh.rs sets the winding with
\* set_inverse_winding before each side instead of passing it)

DefaultTriangulator == [hole_indices |-> <<>>, indices |-> <<>>, inverse_winding |-> FALSE]

\* Earcut::earcut of the earcut crate, which is not part of the repository:
\* the model emits the count - 2 + 2h triangles of a polygon with h holes as
\* a fan around the first point, one of the triangulations of a convex polygon.

\* Faulty variant: a strip, whose triangles share a side of the polygon.
earcut_strip(count, hole_indices) ==
    IF count < 3 THEN <<>>
    ELSE [k \in 1..(3 * (count - 2 + 2 * Len(hole_indices))) |->
            (((k - 1) \div 3) + ((k - 1) % 3)) % count]

earcut(count, hole_indices) ==
    IF count < 3 THEN <<>>
    ELSE [k \in 1..(3 * (count - 2 + 2 * Len(hole_indices))) |->
            IF (k - 1) % 3 = 0 THEN 0 ELSE (((k - 1) \div 3) + ((k - 1) % 3)) % count]

\* indices.chunks_exact_mut(3): triangle.swap(0, 2)
swap_winding(indices) ==
    [k \in 1..Len(indices) |->
        IF k % 3 = 1 THEN indices[k + 2] ELSE IF k % 3 = 0 THEN indices[k - 2] ELSE indices[k]]

\* Faulty variant: the new hole replaces the holes registered before.
add_hole_replacing(t, index) == [t EXCEPT !.hole_indices = <<index>>]

add_hole(t, index) == [t EXCEPT !.hole_indices = Append(@, index)]

set_inverse_winding(t, inverse_winding) == [t EXCEPT !.inverse_winding = inverse_winding]

\* Faulty variant: hole_indices is not cleared after the triangulation.
triangulate_keeping_holes(t, count, inverse_winding) ==
    LET indices == earcut(count, t.hole_indices) IN
    [t EXCEPT !.indices = IF inverse_winding THEN swap_winding(indices) ELSE indices]

triangulate(t, count, inverse_winding) ==
    LET indices == earcut(count, t.hole_indices) IN
    [t EXCEPT !.hole_indices = <<>>,
              !.indices = IF inverse_winding THEN swap_winding(indices) ELSE indices]

\* Faulty variant: the ground plane, [x, z].
project_xz(xyz) == <<xyz[1], xyz[3]>>

\* The closure |&[x, y, _]| [x, y] of triangulate
project(xyz) == <<xyz[1], xyz[2]>>

\* positions.iter().map(..): the points handed to the ear-clipper
earcut_input(positions) == [i \in DOMAIN positions |-> project(positions[i])]

\* All points of the outer ring lie on one line (or on one point)
collinear(points, hole_indices) ==
    LET outer == IF hole_indices = <<>> THEN Len(points) ELSE hole_indices[1]
    IN  \A i, j, k \in 1..outer :
            perp_dot(<<points[j][1] - points[i][1], points[j][2] - points[i][2]>>,
                     <<points[k][1] - points[i][1], points[k][2] - points[i][2]>>) = 0

\* The ear-clipper on numeric points: an outer ring without area has no triangle.
earcut_points(points, hole_indices) ==
    IF collinear(points, hole_indices) THEN <<>> ELSE earcut(Len(points), hole_indices)

\* triangulate on a numeric buffer: what the ear-clipper was given, and the
\* triangulator it leaves
triangulate_positions(t, positions, inverse_winding) ==
    LET points == earcut_input(positions)
        indices == earcut_points(points, t.hole_indices)
    IN  [points |-> points,
         hole_indices |-> t.hole_indices,
         triangulator |-> [t EXCEPT !.hole_indices = <<>>,
                                    !.indices = IF inverse_winding THEN swap_winding(indices)
                                                ELSE indices]]

----------------------------------------------------------------------------
\* wall_mesh.rs: WallMesh.  Coordinates are kept symbolic: a Vec2 is
\* <<name, segment, fit, width, j>>, a position <<Vec2, y>>, a uv <<Vec2, v>>
\* and a normal <<name, segment>>.

DefaultMesh == [positions |-> <<>>, uvs |-> <<>>, normals |-> <<>>, indices |-> <<>>]

Aperture(hole) == [cutout |-> [j \in 1..CutoutLen |-> j], hole |-> hole]

\* itertools minmax_by_key over the connection records of one end
minmax_angles(point_connections) ==
    IF Len(point_connections) = 0 THEN "NoElements"
    ELSE IF Len(point_connections) = 1 THEN "OneElement"
    ELSE "MinMax"

\* (left, right) of the start of segment
offset_points(segment, fit, width) ==
    << <<"left", segment, fit, width, 0>>, <<"right", segment, fit, width, 0>> >>

raw_point(p) == <<"point", splat(p), "", "", 0>>

const_uv(u) == <<u, splat(<<0, 0>>), "", "", 0>>

\* angle.abs() < FRAC_PI_2 for angle = -disp.to_angle(): the wall runs towards +x
inverse_winding_of(segment) == segment.end[1] - segment.start[1] > 0

vertices_count(m) == Len(m.positions)

\* Faulty variant: the index buffer is not cleared.
clear_keeping_indices(m) == [m EXCEPT !.positions = <<>>, !.uvs = <<>>, !.normals = <<>>]

clear(m) == [positions |-> <<>>, uvs |-> <<>>, normals |-> <<>>, indices |-> <<>>]

generate_top(m, segment, start_left, start_right, end_left, end_right) ==
    [positions |-> m.positions \o << <<start_left, "HEIGHT">>, <<start_right, "HEIGHT">>,
                                     <<end_right, "HEIGHT">>, <<end_left, "HEIGHT">> >>,
     uvs |-> m.uvs \o << <<start_left, "0">>, <<start_right, "0">>,
                         <<end_right, "0">>, <<end_left, "0">> >>,
     normals |-> m.normals \o [k \in 1..4 |-> <<"up", splat(<<0, 0>>)>>],
     indices |-> m.indices \o <<0, 3, 1, 1, 3, 2>>]

\* Faulty variant: no normal is pushed for the cutout points.
generate_apertures_without_normals(m, segment, aperture, normal, width) ==
    LET translated(j) == <<"cutout", segment, "", width, aperture.cutout[j]>> IN
    [m EXCEPT !.positions = @ \o [j \in 1..Len(aperture.cutout) |-> <<translated(j), "y">>],
              !.uvs = @ \o [j \in 1..Len(aperture.cutout) |-> <<translated(j), "y">>]]

generate_apertures(m, segment, aperture, normal, width) ==
    LET translated(j) == <<"cutout", segment, "", width, aperture.cutout[j]>> IN
    [m EXCEPT !.positions = @ \o [j \in 1..Len(aperture.cutout) |-> <<translated(j), "y">>],
              !.uvs = @ \o [j \in 1..Len(aperture.cutout) |-> <<translated(j), "y">>],
              !.normals = @ \o [j \in 1..Len(aperture.cutout) |-> normal]]

\* for aperture in apertures.iter().filter(|aperture| !aperture.hole)
RECURSIVE generate_cutouts(_, _, _, _, _, _)
generate_cutouts(m, segment, list, i, normal, width) ==
    IF i > Len(list) THEN m
    ELSE generate_cutouts(
            IF list[i].hole THEN m ELSE generate_apertures(m, segment, list[i], normal, width),
            segment, list, i + 1, normal, width)

\* for aperture in apertures.iter().filter(|aperture| aperture.hole);
\* w = [mesh, triangulator, last_index]
RECURSIVE generate_holes(_, _, _, _, _, _)
generate_holes(w, segment, list, i, normal, width) ==
    IF i > Len(list) THEN w
    ELSE IF ~list[i].hole THEN generate_holes(w, segment, list, i + 1, normal, width)
    ELSE generate_holes(
            [mesh |-> generate_apertures(w.mesh, segment, list[i], normal, width),
             triangulator |-> add_hole(w.triangulator, w.last_index),
             last_index |-> w.last_index + Len(list[i].cutout)],
            segment, list, i + 1, normal, width)

\* w = [mesh, triangulator]
generate_side(w, segment, list, start_side, end_side, width) ==
    LET vertices_start == vertices_count(w.mesh)
        normal == <<width, segment>>
        first == [w.mesh EXCEPT !.positions = Append(@, <<start_side, "0">>),
                                !.uvs = Append(@, <<start_side, "0">>),
                                !.normals = Append(@, normal)]
        cut == generate_cutouts(first, segment, list, 1, normal, width)
        outline == [cut EXCEPT
                        !.positions = @ \o << <<end_side, "0">>, <<end_side, "HEIGHT">>,
                                              <<start_side, "HEIGHT">> >>,
                        !.uvs = @ \o << <<end_side, "0">>, <<end_side, "HEIGHT">>,
                                        <<start_side, "HEIGHT">> >>,
                        !.normals = @ \o <<normal, normal, normal>>]
        holes == generate_holes([mesh |-> outline, triangulator |-> w.triangulator,
                                 last_index |-> vertices_count(outline) - vertices_start],
                                segment, list, 1, normal, width)
        t == triangulate(holes.triangulator, vertices_count(holes.mesh) - vertices_start,
                         holes.triangulator.inverse_winding)
    IN  [mesh |-> [holes.mesh EXCEPT !.indices =
                        @ \o [k \in 1..Len(t.indices) |-> vertices_start + t.indices[k]]],
         triangulator |-> t]

generate_front(m, start_left, start_right, segment) ==
    LET vertices_start == vertices_count(m) IN
    [positions |-> m.positions \o << <<start_left, "0">>, <<start_left, "HEIGHT">>,
                                     <<start_right, "HEIGHT">>, <<start_right, "0">> >>,
     uvs |-> m.uvs \o << <<const_uv("0"), "0">>, <<const_uv("0"), "HEIGHT">>,
                         <<const_uv("WIDTH"), "HEIGHT">>, <<const_uv("WIDTH"), "0">> >>,
     normals |-> m.normals \o [k \in 1..4 |-> <<"-disp", segment>>],
     indices |-> m.indices \o <<vertices_start, vertices_start + 1, vertices_start + 3,
                                vertices_start + 1, vertices_start + 2, vertices_start + 3>>]

generate_back(m, end_left, end_right, segment) ==
    LET vertices_start == vertices_count(m) IN
    [positions |-> m.positions \o << <<end_left, "0">>, <<end_left, "HEIGHT">>,
                                     <<end_right, "HEIGHT">>, <<end_right, "0">> >>,
     uvs |-> m.uvs \o << <<const_uv("0"), "0">>, <<const_uv("0"), "HEIGHT">>,
                         <<const_uv("WIDTH"), "HEIGHT">>, <<const_uv("WIDTH"), "0">> >>,
     normals |-> m.normals \o [k \in 1..4 |-> <<"disp", segment>>],
     indices |-> m.indices \o <<vertices_start, vertices_start + 3, vertices_start + 1,
                                vertices_start + 1, vertices_start + 3, vertices_start + 2>>]

generate_start_connection(m, segment) ==
    LET vertices_start == vertices_count(m) IN
    [positions |-> Append(m.positions, <<raw_point(segment.start), "HEIGHT">>),
     uvs |-> Append(m.uvs, <<const_uv("0"), "0">>),
     normals |-> Append(m.normals, <<"up", splat(<<0, 0>>)>>),
     indices |-> m.indices \o <<1, vertices_start, 0>>]

\* Faulty variant: the fan triangle uses the top corners of the start.
generate_end_connection_at_start(m, segment) ==
    LET vertices_start == vertices_count(m) IN
    [positions |-> Append(m.positions, <<raw_point(segment.end), "HEIGHT">>),
     uvs |-> Append(m.uvs, <<raw_point(segment.end), "0">>),
     normals |-> Append(m.normals, <<"up", splat(<<0, 0>>)>>),
     indices |-> m.indices \o <<1, vertices_start, 0>>]

generate_end_connection(m, segment) ==
    LET vertices_start == vertices_count(m) IN
    [positions |-> Append(m.positions, <<raw_point(segment.end), "HEIGHT">>),
     uvs |-> Append(m.uvs, <<raw_point(segment.end), "0">>),
     normals |-> Append(m.normals, <<"up", splat(<<0, 0>>)>>),
     indices |-> m.indices \o <<3, vertices_start, 2>>]

\* WallMesh::generate; returns [mesh, triangulator]
generate(m, t, segment, segment_connections, list) ==
    LET cleared == clear(m) IN
    IF segment.start = segment.end THEN [mesh |-> cleared, triangulator |-> t]
    ELSE
    LET start_connections == minmax_angles(segment_connections.start)
        start_points == offset_points(segment, start_connections, "width")
        start_left == start_points[1]
        start_right == start_points[2]
        end_connections == minmax_angles(segment_connections.end)
        end_points == offset_points(inverse(segment), end_connections, "-width")
        end_right == end_points[1]
        end_left == end_points[2]
        top == generate_top(cleared, segment, start_left, start_right, end_left, end_right)
        inverse_winding == inverse_winding_of(segment)
        right == generate_side(
                    [mesh |-> top, triangulator |-> set_inverse_winding(t, inverse_winding)],
                    segment, list, start_right, end_right, "-width")
        left == generate_side(
                    [mesh |-> right.mesh,
                     triangulator |-> set_inverse_winding(right.triangulator, ~inverse_winding)],
                    segment, list, start_left, end_left, "width")
        front == IF start_connections = "OneElement" THEN left.mesh
                 ELSE IF start_connections = "NoElements"
                      THEN generate_front(left.mesh, start_left, start_right, segment)
                 ELSE generate_start_connection(left.mesh, segment)
        back == IF end_connections = "OneElement" THEN front
                ELSE IF end_connections = "NoElements"
                     THEN generate_back(front, end_left, end_right, segment)
                ELSE generate_end_connection(front, segment)
    IN  [mesh |-> back, triangulator |-> left.triangulator]

----------------------------------------------------------------------------
\* wall.rs: generate_wall, the mesh generator without apertures

\* one quad of a side: 4 vertices and the 6 given indices
side_quad(m, bottom_start, bottom_end, normal, quad_indices) ==
    [positions |-> m.positions \o << <<bottom_start, "0">>, <<bottom_end, "0">>,
                                     <<bottom_end, "HEIGHT">>, <<bottom_start, "HEIGHT">> >>,
     uvs |-> m.uvs \o << <<bottom_start, "0">>, <<bottom_end, "0">>,
                         <<bottom_end, "HEIGHT">>, <<bottom_start, "HEIGHT">> >>,
     normals |-> m.normals \o [k \in 1..4 |-> normal],
     indices |-> m.indices \o quad_indices]

\* the Front arm of the start match: indices are the literals 12..15
wall_front(m, start_left, start_right, segment) ==
    [generate_front(m, start_left, start_right, segment)
        EXCEPT !.indices = m.indices \o <<12, 13, 15, 13, 14, 15>>]

\* the MinMax arm of the start match
wall_start_connection(m, segment) ==
    [generate_start_connection(m, segment)
        EXCEPT !.uvs = Append(m.uvs, <<raw_point(segment.start), "0">>)]

generate_wall(m, segment, segment_connections) ==
    IF segment.start = segment.end THEN m
    ELSE
    LET start_walls == minmax_angles(segment_connections.start)
        start_points == offset_points(segment, start_walls, "width")
        start_left == start_points[1]
        start_right == start_points[2]
        end_walls == minmax_angles(segment_connections.end)
        end_points == offset_points(inverse(segment), end_walls, "-width")
        end_right == end_points[1]
        end_left == end_points[2]
        top == generate_top(m, segment, start_left, start_right, end_left, end_right)
        right == side_quad(top, start_right, end_right, <<"-width", segment>>,
                           <<4, 7, 5, 5, 7, 6>>)
        left == side_quad(right, start_left, end_left, <<"width", segment>>,
                          <<8, 9, 11, 9, 10, 11>>)
        front == IF start_walls = "OneElement" THEN left
                 ELSE IF start_walls = "NoElements"
                      THEN wall_front(left, start_left, start_right, segment)
                 ELSE wall_start_connection(left, segment)
        back == IF end_walls = "OneElement" THEN front
                ELSE IF end_walls = "NoElements"
                     THEN generate_back(front, end_left, end_right, segment)
                ELSE generate_end_connection(front, segment)
    IN  back

----------------------------------------------------------------------------
\* offset_points: the left and right point at the start of a segment, with the
\* fall back when the offset lines do not intersect.  Points are integer
\* pairs; the width displacement is kept as a sign, a multiple of the width
\* vector the caller passes, so start + width is simple_offset(start, 1) and
\* start - width is simple_offset(start, -1).  Adding an offset to both ends
\* of a segment leaves its displacement as it is, so the determinant of two
\* offset lines is the determinant of the two segments.

OffsetPoints == {<<0, 0>>, <<1, 0>>, <<2, 0>>, <<1, 1>>}

WidthSigns == {1, -1}

\* start + sign * width
simple_offset(start, sign) ==
    [kind |-> "Offset", start |-> start, sign |-> sign, other |-> splat(start)]

\* Option<Vec2> of the two intersection routines
NoPoint == [kind |-> "None", start |-> <<0, 0>>, sign |-> 0, other |-> splat(<<0, 0>>)]

SomePoint(segment, sign, other_segment) ==
    [kind |-> "Intersection", start |-> segment.start, sign |-> sign, other |-> other_segment]

unwrap_or_else(option, fallback) == IF option = NoPoint THEN fallback ELSE option

\* MinMaxResult<Segment> of itertools
MinMaxResult(fit, min_segment, max_segment) ==
    [fit |-> fit, min |-> min_segment, max |-> max_segment]

\* (segment + sign * width).line_intersection(other_segment -/+ other_width)
line_intersection(segment, sign, other_segment) ==
    LET disp == displacement(segment)
        other_disp == displacement(other_segment)
        determinant == perp_dot(disp, other_disp)
    IN  IF determinant = 0 THEN NoPoint ELSE SomePoint(segment, sign, other_segment)

\* wall_mesh.rs: both fall backs are segment.start + width
mesh_offset_points(segment, connections, width) ==
    IF connections.fit = "NoElements"
    THEN <<simple_offset(segment.start, width), simple_offset(segment.start, -width)>>
    ELSE LET left == unwrap_or_else(line_intersection(segment, width, connections.max),
                                    simple_offset(segment.start, width))
             right == unwrap_or_else(line_intersection(segment, -width, inverse(connections.min)),
                                     simple_offset(segment.start, width))
         IN  <<left, right>>

\* segment.rs: Segment::offset_points
segment_offset_points(segment, width_disp, connections) ==
    IF connections.fit = "NoElements"
    THEN <<simple_offset(segment.start, width_disp), simple_offset(segment.start, -width_disp)>>
    ELSE LET left == unwrap_or_else(line_intersection(segment, width_disp, connections.max),
                                    simple_offset(segment.start, width_disp))
             right == unwrap_or_else(line_intersection(segment, -width_disp, inverse(connections.min)),
                                     simple_offset(segment.start, -width_disp))
         IN  <<left, right>>

\* wall.rs: Line::new, the coefficients a and b of a x + b y = c
Line(p1, p2) == [a |-> p2[2] - p1[2], b |-> p1[1] - p2[1]]

\* wall.rs: Line::intersection
intersection(line, rhs, wall_segment, sign, other_wall) ==
    LET det == line.a * rhs.b - rhs.a * line.b
    IN  IF det = 0 THEN NoPoint ELSE SomePoint(wall_segment, sign, other_wall)

\* wall.rs: wall_intersection
wall_intersection(wall_segment, width, other_wall) ==
    LET other_line == Line(other_wall.start, other_wall.end)
    IN  unwrap_or_else(
            intersection(Line(wall_segment.start, wall_segment.end), other_line,
                         wall_segment, width, other_wall),
            simple_offset(wall_segment.start, width))

\* wall.rs: offset_points
wall_offset_points(wall_segment, min_max_walls, width) ==
    IF min_max_walls.fit = "NoElements"
    THEN <<simple_offset(wall_segment.start, width), simple_offset(wall_segment.start, -width)>>
    ELSE <<wall_intersection(wall_segment, width, min_max_walls.max),
           wall_intersection(wall_segment, -width, inverse(min_max_walls.min))>>

----------------------------------------------------------------------------
\* wall_mesh.rs: generate_collider, generate_cuboid.  A point of the ground
\* plane is kept as the point it is measured from and the x of the cutout
\* point by which it is moved along the wall (0 for an end of the wall); a
\* vertex is such a point moved to the left or to the right by the wall
\* width, on the ground or at HEIGHT.

\* An aperture with the fields that the collider reads
PlacedAperture(hole, placing_object, translation) ==
    [cutout |-> [j \in 1..CutoutLen |-> j], hole |-> hole,
     placing_object |-> placing_object, translation |-> translation]

EmptyCollider == [vertices |-> <<>>, indices |-> <<>>]

Along(base, x) == [base |-> base, along |-> x]

Vertex(side, at, y) == [side |-> side, at |-> at, y |-> y]

\* Faulty variant: the bottom face is pushed as well.
cuboid_faces_with_bottom(last_index) ==
    << <<last_index + 5, last_index + 4, last_index + 6>>,
       <<last_index + 4, last_index + 7, last_index + 6>>,
       <<last_index + 3, last_index + 4, last_index>>,
       <<last_index + 3, last_index + 7, last_index + 4>>,
       <<last_index + 1, last_index + 5, last_index + 2>>,
       <<last_index + 5, last_index + 6, last_index + 2>>,
       <<last_index, last_index + 5, last_index + 1>>,
       <<last_index, last_index + 4, last_index + 5>>,
       <<last_index + 2, last_index + 6, last_index + 3>>,
       <<last_index + 6, last_index + 7, last_index + 3>>,
       <<last_index, last_index + 1, last_index + 2>>,
       <<last_index, last_index + 2, last_index + 3>> >>

\* The index triples pushed by generate_cuboid: top, left, right, back, front
cuboid_faces(last_index) ==
    << <<last_index + 5, last_index + 4, last_index + 6>>,
       <<last_index + 4, last_index + 7, last_index + 6>>,
       <<last_index + 3, last_index + 4, last_index>>,
       <<last_index + 3, last_index + 7, last_index + 4>>,
       <<last_index + 1, last_index + 5, last_index + 2>>,
       <<last_index + 5, last_index + 6, last_index + 2>>,
       <<last_index, last_index + 5, last_index + 1>>,
       <<last_index, last_index + 4, last_index + 5>>,
       <<last_index + 2, last_index + 6, last_index + 3>>,
       <<last_index + 6, last_index + 7, last_index + 3>> >>

generate_cuboid(collider, start, end) ==
    LET last_index == Len(collider.vertices)
    IN  [vertices |-> collider.vertices \o
                      << Vertex("left", start, "0.0"), Vertex("right", start, "0.0"),
                         Vertex("right", end, "0.0"), Vertex("left", end, "0.0"),
                         Vertex("left", start, "HEIGHT"), Vertex("right", start, "HEIGHT"),
                         Vertex("right", end, "HEIGHT"), Vertex("left", end, "HEIGHT") >>,
         indices |-> collider.indices \o cuboid_faces(last_index)]

\* Faulty variant: a placing preview splits the collider like a placed object.
splits_collider_when_placing(aperture) == ~aperture.hole

\* .filter(|aperture| !aperture.hole && !aperture.placing_object)
splits_collider(aperture) == ~aperture.hole /\ ~aperture.placing_object

\* end = aperture.translation.xz() + first.x * wall_dir
end_before(aperture) == Along(aperture.translation, aperture.cutout[1])

\* Faulty variant: the next cuboid starts at the first point of the cutout.
start_after_first(aperture) == Along(aperture.translation, aperture.cutout[1])

\* start = aperture.translation.xz() + last.x * wall_dir
start_after(aperture) == Along(aperture.translation, aperture.cutout[Len(aperture.cutout)])

RECURSIVE collider_cuboids(_, _, _, _, _)
\* The for loop of generate_collider from aperture i, and the last cuboid
collider_cuboids(collider, start, wall_segment, list, i) ==
    IF i > Len(list) THEN generate_cuboid(collider, start, Along(wall_segment.end, 0))
    ELSE IF ~splits_collider(list[i])
         THEN collider_cuboids(collider, start, wall_segment, list, i + 1)
    ELSE collider_cuboids(
            generate_cuboid(collider, start, end_before(list[i])),
            start_after(list[i]), wall_segment, list, i + 1)

generate_collider(wall_segment, list) ==
    collider_cuboids(EmptyCollider, Along(wall_segment.start, 0), wall_segment, list, 1)

----------------------------------------------------------------------------
\* segment.rs: Segment::contains.  Coordinates are hundredths of a unit, so
\* products of two coordinates are in units of 1/10000.

\* The literal 0.1 that the cross product is compared with, in units of 1/10000
ContainsTolerance == 1000

dot(a, b) == a[1] * b[1] + a[2] * b[2]

length_squared(a) == dot(a, a)

abs(x) == IF x < 0 THEN -x ELSE x

\* The length of a displacement whose length is a whole number of hundredths
whole_length(a) == CHOOSE n \in 0..1000 : n * n = length_squared(a)

\* The test on the perpendicular distance: the cross product is compared with
\* the tolerance times the length of the segment.
contains_by_distance(seg, p) ==
    LET disp == displacement(seg)
        point_disp == <<p[1] - seg.start[1], p[2] - seg.start[2]>>
    IN  IF abs(perp_dot(disp, point_disp)) * 100 > ContainsTolerance * whole_length(disp)
        THEN FALSE
        ELSE IF dot(disp, point_disp) < 0 THEN FALSE
        ELSE dot(disp, point_disp) <= length_squared(disp)

contains(seg, p) ==
    LET disp == displacement(seg)
        point_disp == <<p[1] - seg.start[1], p[2] - seg.start[2]>>
    IN  IF abs(perp_dot(disp, point_disp)) > ContainsTolerance THEN FALSE
        ELSE IF dot(disp, point_disp) < 0 THEN FALSE
        ELSE dot(disp, point_disp) <= length_squared(disp)

----------------------------------------------------------------------------
\* The two line intersection routines on integer points.  A returned point is
\* kept as an exact fraction: the point num / den.

NoIntersectionPoint == [kind |-> "None", num |-> <<0, 0>>, den |-> 1]

PointAt(num, den) == [kind |-> "Some", num |-> num, den |-> den]

\* Faulty variant: t is taken against the displacement of self.
line_intersection_at_by_own_disp(seg, other) ==
    LET disp == displacement(seg)
        other_disp == displacement(other)
        determinant == perp_dot(disp, other_disp)
        t_num == perp_dot(<<other.start[1] - seg.start[1], other.start[2] - seg.start[2]>>, disp)
    IN  IF determinant = 0 THEN NoIntersectionPoint
        ELSE PointAt(<<seg.start[1] * determinant + t_num * disp[1],
                       seg.start[2] * determinant + t_num * disp[2]>>, determinant)

\* segment.rs: Segment::line_intersection, self.start + t * disp with
\* t = (other.start - self.start).perp_dot(other_disp) / determinant
line_intersection_at(seg, other) ==
    LET disp == displacement(seg)
        other_disp == displacement(other)
        determinant == perp_dot(disp, other_disp)
        t_num == perp_dot(<<other.start[1] - seg.start[1], other.start[2] - seg.start[2]>>,
                          other_disp)
    IN  IF determinant = 0 THEN NoIntersectionPoint
        ELSE PointAt(<<seg.start[1] * determinant + t_num * disp[1],
                       seg.start[2] * determinant + t_num * disp[2]>>, determinant)

\* wall.rs: Line::new with the constant term, a x + b y = c
LineThrough(p1, p2) ==
    [a |-> p2[2] - p1[2], b |-> p1[1] - p2[1],
     c |-> (p2[2] - p1[2]) * p1[1] + (p1[1] - p2[1]) * p1[2]]

\* wall.rs: Line::intersection
intersection_at(line, rhs) ==
    LET det == line.a * rhs.b - rhs.a * line.b
    IN  IF det = 0 THEN NoIntersectionPoint
        ELSE PointAt(<<rhs.b * line.c - line.b * rhs.c, line.a * rhs.c - rhs.a * line.c>>, det)

--------------------------------------------------------------------------------
\* family.rs: family_sync_system keeps Family and Dolls in step with FamilySync

DollIds == 1..MaxDolls
FamilyIds == {"f", "g"}
NoFamily == "none"

\* Iterator::position over a Vec of entities: 0 stands for None
doll_position(list, entity) ==
    IF \E i \in 1..Len(list) : list[i] = entity
    THEN CHOOSE i \in 1..Len(list) :
            /\ list[i] = entity
            /\ \A j \in 1..(i - 1) : list[j] # entity
    ELSE 0

\* Vec::swap_remove: the last element takes the place of the removed one
swap_remove(list, index) ==
    [k \in 1..(Len(list) - 1) |-> IF k = index THEN list[Len(list)] ELSE list[k]]

\* The state the system works on: the Dolls vectors it mutates in place and the
\* commands it queues
SyncState(lists, commands, failed) ==
    [dolls |-> lists, commands |-> commands, failed |-> failed]

\* The body of the loop of family_sync_system for one doll; present is the set
\* of families that have a Dolls component while the system runs
sync_doll(st, present, entity) ==
    LET previous == family[entity]
        removed_previous ==
            IF previous # NoFamily /\ previous \in present
            THEN IF doll_position(st.dolls[previous], entity) = 0
                 THEN SyncState(st.dolls, st.commands, TRUE)
                 ELSE SyncState([st.dolls EXCEPT ![previous] =
                                    swap_remove(@, doll_position(@, entity))],
                                st.commands, st.failed)
            ELSE st
        target == family_sync[entity]
        with_family == Append(removed_previous.commands,
                              [insert |-> "Family", entity |-> entity, value |-> target])
    IN  IF target \in present
        THEN SyncState([removed_previous.dolls EXCEPT ![target] = Append(@, entity)],
                       with_family, removed_previous.failed)
        ELSE SyncState(removed_previous.dolls,
                       Append(with_family,
                              [insert |-> "Dolls", entity |-> target, value |-> <<entity>>]),
                       removed_previous.failed)

\* family_sync_system over the dolls of the query, in the order of the query;
\* the loop ends at the first failed expect
RECURSIVE family_sync_loop(_, _, _)
family_sync_loop(st, present, order) ==
    IF order = <<>> \/ st.failed THEN st
    ELSE family_sync_loop(sync_doll(st, present, Head(order)), present, Tail(order))

\* The queued commands are applied in the order they were issued: an insert
\* replaces the component the entity already has
RECURSIVE apply_family_commands(_, _)
apply_family_commands(world, commands) ==
    IF commands = <<>> THEN world
    ELSE LET c == Head(commands)
             next == IF c.insert = "Family"
                     THEN [world EXCEPT !.family[c.entity] = c.value]
                     ELSE [world EXCEPT !.dolls[c.entity] = c.value,
                                        !.has_dolls = @ \cup {c.entity}]
         IN  apply_family_commands(next, Tail(commands))

--------------------------------------------------------------------------------
\* linked_task.rs: LinkedTaskPlugin

Tasks == 1..MaxTasks
TaskStates == {"Queued", "Active", "Cancelled"}
NoTask == 0

\* insert_links: every task with a newly added LinkedTask(other) queues the
\* insertion of LinkedTask(task) on other; the commands are applied after the
\* systems of the schedule have run, in the order of the query
RECURSIVE insert_links(_, _)
insert_links(links, order) ==
    IF order = <<>> THEN links
    ELSE insert_links([links EXCEPT ![links[Head(order)]] = Head(order)], Tail(order))

\* sync_states, first loop: (linked entity, state) of every changed task that
\* has a LinkedTask, in the order of the query
RECURSIVE query_cache(_, _, _)
query_cache(states, links, order) ==
    IF order = <<>> THEN <<>>
    ELSE << [entity |-> links[Head(order)], state |-> states[Head(order)]] >>
         \o query_cache(states, links, Tail(order))

\* sync_states, second loop: the cached state is written to the linked entity,
\* which must have a LinkedTask itself
RECURSIVE write_cached(_, _, _)
write_cached(st, links, cache) ==
    IF cache = <<>> \/ st.failed THEN st
    ELSE LET c == Head(cache)
         IN  IF links[c.entity] = NoTask
             THEN [st EXCEPT !.failed = TRUE]
             ELSE write_cached([st EXCEPT !.states[c.entity] = c.state],
                               links, Tail(cache))

sync_states(states, links, order) ==
    write_cached([states |-> states, failed |-> FALSE], links,
                 query_cache(states, links, order))

--------------------------------------------------------------------------------
\* despawn_tracker.rs: DespawnTrackerPlugin

Replicated == 1..MaxReplicated
Clients == 1..MaxClients
NoAck == -1
TrackerSystems == {"entity_tracking_system", "cleanup_system", "detection_system"}

\* The values of AckedTicks
acked_values(acks) == {acks[c] : c \in {c \in Clients : acks[c] # NoAck}}

\* Faulty variant: a despawn is kept while no client has gone past it
cleanup_keeping_current(list, acks) ==
    SelectSeq(list, LAMBDA d : \E last_tick \in acked_values(acks) : last_tick <= d.tick)

\* cleanup_system: retain the despawns some client has not acknowledged
cleanup(list, acks) ==
    SelectSeq(list, LAMBDA d : \E last_tick \in acked_values(acks) : last_tick < d.tick)

\* The entities detection_system finds despawned, in the order of the HashSet
missing_entities(entities, states) == {e \in entities : states[e] # "alive"}

\* Faulty variant: the despawned entities stay tracked
detection_retained_keeping_all(entities, states) == entities

\* detection_system: the entities retain keeps
detection_retained(entities, states) == entities \ missing_entities(entities, states)

\* detection_system: the despawns pushed, one per missing entity
detection_pushed(order, tick) == [k \in 1..Len(order) |-> [entity |-> order[k], tick |-> tick]]

--------------------------------------------------------------------------------
\* creating_lot.rs: CreatingLotPlugin.  Coordinates are hundredths of a unit.

\* const SNAP_DELTA: f32 = 0.1
SnapDelta == 10

NoHover == <<>>
NoPolygon == <<>>

\* set_vertex_position on the vertices of the lot being created
set_vertex_position(vertices, hover) ==
    IF hover = NoHover THEN vertices
    ELSE LET first_vertex == vertices[1]
             delta == <<first_vertex[1] - hover[1], first_vertex[2] - hover[2]>>
         IN  IF abs(delta[1]) <= SnapDelta /\ abs(delta[2]) <= SnapDelta
             THEN [vertices EXCEPT ![Len(vertices)] = first_vertex]
             ELSE [vertices EXCEPT ![Len(vertices)] = hover]

\* confirm: the vertices after the system and the polygon it sends, if any
confirm(vertices) ==
    IF vertices[1] = vertices[Len(vertices)]
    THEN [vertices |-> vertices, sent |-> vertices]
    ELSE [vertices |-> Append(vertices, vertices[Len(vertices)]), sent |-> NoPolygon]

----------------------------------------------------------------------------
\* The world: edits between passes, and the reconciliation pass

\* All orders in which a query can yield the entities of s
Orders(s) ==
    {o \in [1..Cardinality(s) -> s] : \A i, j \in 1..Cardinality(s) : i # j => o[i] # o[j]}

Without(list, e) == SelectSeq(list, LAMBDA x : x # e)

NoCall == [fn |-> "none", args |-> <<>>, result |-> <<>>]

\* No wall was regenerated
NoWalls == [e \in {} |-> DefaultMesh]

Init ==
    /\ spawned = 0
    /\ alive = {}
    /\ segs = [e \in Entities |-> splat(<<0, 0>>)]
    /\ vis = [e \in Entities |-> "Visible"]
    /\ children = <<>>
    /\ conns = [e \in Entities |-> EmptyConnections]
    /\ changed = {}
    /\ removed = <<>>
    /\ edits = 0
    /\ wall = splat(<<0, 0>>)
    /\ wall_connections = EmptyConnections
    /\ apertures = <<>>
    /\ mesh = DefaultMesh
    /\ triangulator = DefaultTriangulator
    /\ stale = 0
    /\ regenerated = NoWalls
    /\ updated = {}
    /\ call = NoCall
    /\ family_sync = [d \in DollIds |-> NoFamily]
    /\ family = [d \in DollIds |-> NoFamily]
    /\ dolls = [f \in FamilyIds |-> <<>>]
    /\ has_dolls = {}
    /\ sync_changed = {}
    /\ panicked = FALSE
    /\ task_state = [t \in Tasks |-> "Queued"]
    /\ linked = [t \in Tasks |-> NoTask]
    /\ link_added = {}
    /\ state_changed = {}
    /\ task_failed = FALSE
    /\ replicated = [e \in Replicated |-> "none"]
    /\ new_replicated = {}
    /\ tracked_entities = {}
    /\ despawns = <<>>
    /\ client_acks = [c \in Clients |-> NoAck]
    /\ change_tick = 0
    /\ ran = {}
    /\ creating_lot = FALSE
    /\ lot_vertices = <<>>
    /\ lot_create = NoPolygon

\* A segment / wall is spawned as a child of the lot (components are Added, so Changed).
AddSegment(s, e) ==
    /\ spawned < MaxEnt
    /\ LET id == spawned + 1 IN
        /\ spawned' = id
        /\ alive' = alive \cup {id}
        /\ segs' = [segs EXCEPT ![id] = Segment(s, e)]
        /\ children' = Append(children, id)
        /\ changed' = changed \cup {id}
    /\ UNCHANGED <<vis, conns, removed, edits, meshVars, call, gameVars>>
    /\ regenerated' = NoWalls
    /\ updated' = {}

\* An endpoint is written (DerefMut marks the component changed even for an equal value).
MovePoint(e, kind, p) ==
    /\ edits < MaxEdits
    /\ edits' = edits + 1
    /\ e \in alive
    /\ segs' = [segs EXCEPT ![e] = set_point(@, kind, p)]
    /\ changed' = changed \cup {e}
    /\ UNCHANGED <<spawned, alive, vis, children, conns, removed, meshVars, call, gameVars>>
    /\ regenerated' = NoWalls
    /\ updated' = {}

Hide(e) ==
    /\ edits < MaxEdits
    /\ edits' = edits + 1
    /\ e \in alive
    /\ vis[e] # "Hidden"
    /\ vis' = [vis EXCEPT ![e] = "Hidden"]
    /\ changed' = changed \cup {e}
    /\ UNCHANGED <<spawned, alive, segs, children, conns, removed, meshVars, frameVars, call, gameVars>>

Show(e) ==
    /\ edits < MaxEdits
    /\ edits' = edits + 1
    /\ e \in alive
    /\ vis[e] = "Hidden"
    /\ vis' = [vis EXCEPT ![e] = "Visible"]
    /\ changed' = changed \cup {e}
    /\ UNCHANGED <<spawned, alive, segs, children, conns, removed, meshVars, frameVars, call, gameVars>>

\* segment.rs: despawn fires the OnRemove observer cleanup_connections at once.
RemoveSegment(e) ==
    /\ edits < MaxEdits
    /\ edits' = edits + 1
    /\ e \in alive
    /\ conns' = disconnect_all(conns, e)
    /\ alive' = alive \ {e}
    /\ segs' = [segs EXCEPT ![e] = splat(<<0, 0>>)]
    /\ vis' = [vis EXCEPT ![e] = "Visible"]
    /\ children' = Without(children, e)
    /\ changed' = changed \ {e}
    /\ UNCHANGED <<spawned, removed, meshVars, frameVars, call, gameVars>>

\* wall.rs: despawn drops the components; cleanup_system reads the removal next frame.
RemoveWall(e) ==
    /\ edits < MaxEdits
    /\ edits' = edits + 1
    /\ e \in alive
    /\ conns' = [conns EXCEPT ![e] = EmptyConnections]
    /\ alive' = alive \ {e}
    /\ segs' = [segs EXCEPT ![e] = splat(<<0, 0>>)]
    /\ children' = Without(children, e)
    /\ changed' = changed \ {e}
    /\ removed' = Append(removed, e)
    /\ UNCHANGED <<spawned, vis, meshVars, call, gameVars>>
    /\ regenerated' = NoWalls
    /\ updated' = {}

\* segment.rs: the PostUpdate system update_connections
SegmentPass ==
    /\ edits' = 0
    /\ \E order \in Orders(changed) : conns' = update_connections(conns, order)
    /\ changed' = {}
    /\ UNCHANGED <<spawned, alive, segs, vis, children, removed, meshVars, frameVars, call, gameVars>>

\* wall.rs: (cleanup_system, connections_update_system).chain()
WallPass ==
    /\ edits' = 0
    /\ \E order \in Orders(changed) :
            conns' = connections_update_system(cleanup_system(conns, removed), order)
    /\ changed' = {}
    /\ removed' = <<>>
    /\ UNCHANGED <<spawned, alive, segs, vis, children, meshVars, frameVars, call, gameVars>>

NextSegment ==
    \/ \E s, e \in Points : AddSegment(s, e)
    \/ \E e \in Entities, kind \in PointKind, p \in Points : MovePoint(e, kind, p)
    \/ \E e \in Entities : Hide(e)
    \/ \E e \in Entities : Show(e)
    \/ \E e \in Entities : RemoveSegment(e)
    \/ SegmentPass

NextWall ==
    \/ \E s, e \in Points : AddSegment(s, e)
    \/ \E e \in Entities, kind \in PointKind, p \in Points : MovePoint(e, kind, p)
    \/ \E e \in Entities : RemoveWall(e)
    \/ WallPass

SpecSegment == Init /\ [][NextSegment]_vars

SpecWall == Init /\ [][NextWall]_vars

----------------------------------------------------------------------------
\* The meshed wall: writes to its components, and the mesh system that calls
\* WallMesh::generate with the WallMesh of its Mesh asset and one Triangulator

\* The record connections_update_system pushes for the n-th neighbour of an end
Neighbour(n) == SegmentConnection(n, Segment(<<0, 0>>, <<1, 0>>), "Start")

SetWallPoint(kind, p) ==
    /\ stale < MaxEdits
    /\ stale' = stale + 1
    /\ wall' = set_point(wall, kind, p)
    /\ UNCHANGED <<wall_connections, apertures, mesh, triangulator, connVars, frameVars, call, gameVars>>

PushConnection(kind) ==
    /\ stale < MaxEdits
    /\ stale' = stale + 1
    /\ Len(get(wall_connections, kind)) < MaxNeighbours
    /\ wall_connections' =
            push(wall_connections, kind, Neighbour(Len(get(wall_connections, kind)) + 1))
    /\ UNCHANGED <<wall, apertures, mesh, triangulator, connVars, frameVars, call, gameVars>>

PopConnection(kind) ==
    /\ stale < MaxEdits
    /\ stale' = stale + 1
    /\ Len(get(wall_connections, kind)) > 0
    /\ wall_connections' = remove(wall_connections, kind, Len(get(wall_connections, kind)))
    /\ UNCHANGED <<wall, apertures, mesh, triangulator, connVars, frameVars, call, gameVars>>

AddAperture(hole) ==
    /\ stale < MaxEdits
    /\ stale' = stale + 1
    /\ Len(apertures) < MaxApertures
    /\ apertures' = Append(apertures, Aperture(hole))
    /\ UNCHANGED <<wall, wall_connections, mesh, triangulator, connVars, frameVars, call, gameVars>>

RemoveAperture(i) ==
    /\ stale < MaxEdits
    /\ stale' = stale + 1
    /\ i \in 1..Len(apertures)
    /\ apertures' = RemoveAt(apertures, i)
    /\ UNCHANGED <<wall, wall_connections, mesh, triangulator, connVars, frameVars, call, gameVars>>

Generate ==
    /\ stale' = 0
    /\ LET generated == generate(mesh, triangulator, wall, wall_connections, apertures) IN
        /\ mesh' = generated.mesh
        /\ triangulator' = generated.triangulator
    /\ UNCHANGED <<wall, wall_connections, apertures, connVars, frameVars, call, gameVars>>

NextMesh ==
    \/ \E kind \in PointKind, p \in Points : SetWallPoint(kind, p)
    \/ \E kind \in PointKind : PushConnection(kind)
    \/ \E kind \in PointKind : PopConnection(kind)
    \/ \E hole \in BOOLEAN : AddAperture(hole)
    \/ \E i \in 1..MaxApertures : RemoveAperture(i)
    \/ Generate

SpecMesh == Init /\ [][NextMesh]_vars

\* wall.rs: mesh_update_system for a wall whose WallConnections changed; the
\* buffers of the Mesh asset are cleared and filled by generate_wall.
MeshUpdate ==
    /\ stale > 0
    /\ stale' = 0
    /\ mesh' = generate_wall(clear(mesh), wall, wall_connections)
    /\ UNCHANGED <<wall, wall_connections, apertures, triangulator, connVars, frameVars, call, gameVars>>

NextWallMesh ==
    \/ \E kind \in PointKind, p \in Points : SetWallPoint(kind, p)
    \/ \E kind \in PointKind : PushConnection(kind)
    \/ \E kind \in PointKind : PopConnection(kind)
    \/ MeshUpdate

SpecWallMesh == Init /\ [][NextWallMesh]_vars

----------------------------------------------------------------------------
\* wall.rs: one frame of (cleanup_system, connections_update_system,
\* mesh_update_system).chain() over the walls of the lot

\* mesh_update_system for one wall with Changed<WallConnections>: the buffers
\* are cleared and filled by generate_wall
regenerate(segment, segment_connections) ==
    [wall |-> segment, connections |-> segment_connections,
     mesh |-> generate_wall(clear(DefaultMesh), segment, segment_connections)]

WallFrame ==
    /\ \E order \in Orders(changed) :
        LET cleaned == cleanup_system(conns, removed)
            connected == connections_update_system(cleaned, order)
            marked == marked_by_cleanup(conns, removed) \cup marked_by_updates(cleaned, order)
        IN  /\ conns' = connected
            /\ regenerated' = [e \in marked |-> regenerate(segs[e], connected[e])]
    /\ updated' = changed
    /\ changed' = {}
    /\ removed' = <<>>
    /\ edits' = 0
    /\ UNCHANGED <<spawned, alive, segs, vis, children, meshVars, call, gameVars>>

NextWallFrame ==
    \/ \E s, e \in Points : AddSegment(s, e)
    \/ \E e \in Entities, kind \in PointKind, p \in Points : MovePoint(e, kind, p)
    \/ \E e \in Entities : RemoveWall(e)
    \/ WallFrame

SpecWallFrame == Init /\ [][NextWallFrame]_vars

----------------------------------------------------------------------------
\* Calls of offset_points: a segment of non-zero length, and the minimum and
\* maximum of its unified neighbours, which start at the start of the segment

OffsetSegments == {Segment(s, e) : s \in OffsetPoints, e \in OffsetPoints} \ {splat(p) : p \in OffsetPoints}

NeighboursAt(p) == {n \in OffsetSegments : n.start = p}

MinMaxResults(segment) ==
    {MinMaxResult("NoElements", segment, segment)}
    \cup {MinMaxResult("OneElement", n, n) : n \in NeighboursAt(segment.start)}
    \cup {MinMaxResult("MinMax", n, m) : n \in NeighboursAt(segment.start), m \in NeighboursAt(segment.start)}

CallMeshOffsetPoints ==
    /\ call = NoCall
    /\ \E segment \in OffsetSegments, width \in WidthSigns :
        \E connections \in MinMaxResults(segment) :
        call' = [fn |-> "wall_mesh::offset_points", args |-> <<segment, connections, width>>,
                 result |-> mesh_offset_points(segment, connections, width)]
    /\ UNCHANGED <<worldVars, gameVars>>

CallSegmentOffsetPoints ==
    /\ call = NoCall
    /\ \E segment \in OffsetSegments, width \in WidthSigns :
        \E connections \in MinMaxResults(segment) :
        call' = [fn |-> "Segment::offset_points", args |-> <<segment, connections, width>>,
                 result |-> segment_offset_points(segment, width, connections)]
    /\ UNCHANGED <<worldVars, gameVars>>

CallWallOffsetPoints ==
    /\ call = NoCall
    /\ \E segment \in OffsetSegments, width \in WidthSigns :
        \E connections \in MinMaxResults(segment) :
        call' = [fn |-> "wall::offset_points", args |-> <<segment, connections, width>>,
                 result |-> wall_offset_points(segment, connections, width)]
    /\ UNCHANGED <<worldVars, gameVars>>

NextOffset ==
    \/ CallMeshOffsetPoints
    \/ CallSegmentOffsetPoints
    \/ CallWallOffsetPoints

SpecOffset == Init /\ [][NextOffset]_vars

----------------------------------------------------------------------------
\* Calls of generate_collider: a wall of non-zero length and its apertures

Translations == {<<1, 0>>, <<2, 0>>}

PlacedApertures ==
    {PlacedAperture(hole, placing_object, translation) :
        hole \in BOOLEAN, placing_object \in BOOLEAN, translation \in Translations}

ApertureLists ==
    UNION {[1..n -> PlacedApertures] : n \in 0..MaxApertures}

CallGenerateCollider ==
    /\ call = NoCall
    /\ \E s \in Points, e \in Points, list \in ApertureLists :
        /\ s # e
        /\ call' = [fn |-> "generate_collider", args |-> <<Segment(s, e), list>>,
                    result |-> generate_collider(Segment(s, e), list)]
    /\ UNCHANGED <<worldVars, gameVars>>

NextCollider == CallGenerateCollider

SpecCollider == Init /\ [][NextCollider]_vars

\* Calls of generate_collider with the apertures of a wall along the x axis,
\* in either direction.  The objects that split the collider are snapped to
\* the wall and placed without colliding: their cutouts lie within the wall,
\* one after the other along it, in the order of the list.

WallsAlongX == {Segment(<<0, 0>>, <<WallLength, 0>>), Segment(<<WallLength, 0>>, <<0, 0>>)}

\* Distance from the start of the wall of the point base + x * wall_dir
Position(wall_segment, at) ==
    (IF wall_segment.start[1] = 0 THEN at.base[1] ELSE WallLength - at.base[1]) + at.along

AperturesOnWall ==
    {PlacedAperture(hole, placing_object, <<x, 0>>) :
        hole \in BOOLEAN, placing_object \in BOOLEAN, x \in (0 - CutoutLen)..WallLength}

Attached(wall_segment, list) ==
    LET splitting == SelectSeq(list, splits_collider)
    IN  /\ \A i \in DOMAIN splitting :
            /\ Position(wall_segment, end_before(splitting[i])) >= 0
            /\ Position(wall_segment, start_after(splitting[i])) <= WallLength
        /\ \A i \in 1..(Len(splitting) - 1) :
            Position(wall_segment, start_after(splitting[i]))
                <= Position(wall_segment, end_before(splitting[i + 1]))

CallGenerateColliderOnWall ==
    /\ call = NoCall
    /\ \E wall_segment \in WallsAlongX,
          list \in UNION {[1..n -> AperturesOnWall] : n \in 0..MaxApertures} :
        /\ Attached(wall_segment, list)
        /\ call' = [fn |-> "generate_collider", args |-> <<wall_segment, list>>,
                    result |-> generate_collider(wall_segment, list)]
    /\ UNCHANGED <<worldVars, gameVars>>

NextColliderOnWall == CallGenerateColliderOnWall

SpecColliderOnWall == Init /\ [][NextColliderOnWall]_vars

----------------------------------------------------------------------------
\* Calls of the Triangulator: add_hole for the hole rings of the coming
\* buffer, then triangulate on the buffer.  A buffer is an outer quad followed
\* by one ring of 4 points per registered hole, laid out in a plane.

Planes == {"xy", "xz", "zy", "diagonal"}

Lengths == {6, 7, 8}

Turns == {"left", "right"}

\* The outer quad of the given length in either turning direction, and two hole rings
Outline(length, turn) ==
    (IF turn = "left"
     THEN << <<0, 0>>, <<length, 0>>, <<length, 3>>, <<0, 3>> >>
     ELSE << <<0, 0>>, <<0, 3>>, <<length, 3>>, <<length, 0>> >>)
    \o << <<1, 1>>, <<2, 1>>, <<2, 2>>, <<1, 2>>,
          <<4, 1>>, <<5, 1>>, <<5, 2>>, <<4, 2>> >>

HoleStarts == <<4, 8>>

\* The point (u, v) of the outline in space
Placed(plane, uv) ==
    IF plane = "xy" THEN <<uv[1], uv[2], 0>>
    ELSE IF plane = "xz" THEN <<uv[1], 3, uv[2]>>
    ELSE IF plane = "zy" THEN <<0, uv[2], uv[1]>>
    ELSE <<uv[1], uv[2], uv[1]>>

Buffer(plane, length, turn, holes) ==
    [i \in 1..(4 + 4 * holes) |-> Placed(plane, Outline(length, turn)[i])]

NoResult == [points |-> <<>>, hole_indices |-> <<>>, indices |-> <<>>]

CallAddHole ==
    LET registered == Len(triangulator.hole_indices)
    IN  /\ registered < Len(HoleStarts)
        /\ triangulator' = add_hole(triangulator, HoleStarts[registered + 1])
        /\ call' = [fn |-> "add_hole", args |-> <<HoleStarts[registered + 1]>>, result |-> NoResult]
        /\ UNCHANGED <<wall, wall_connections, apertures, mesh, stale, connVars, frameVars, gameVars>>

CallTriangulate ==
    \E plane \in Planes, length \in Lengths, turn \in Turns, inverse_winding \in BOOLEAN :
        LET positions == Buffer(plane, length, turn, Len(triangulator.hole_indices))
            done == triangulate_positions(triangulator, positions, inverse_winding)
        IN  /\ triangulator' = done.triangulator
            /\ call' = [fn |-> "triangulate", args |-> <<positions, inverse_winding>>,
                        result |-> [points |-> done.points,
                                    hole_indices |-> done.hole_indices,
                                    indices |-> done.triangulator.indices]]
            /\ UNCHANGED <<wall, wall_connections, apertures, mesh, stale, connVars, frameVars, gameVars>>

NextTriangulator ==
    \/ CallAddHole
    \/ CallTriangulate

SpecTriangulator == Init /\ [][NextTriangulator]_vars

----------------------------------------------------------------------------
\* Calls of Segment::contains, coordinates in hundredths

ContainsSegments ==
    {Segment(<<0, 0>>, <<1000, 0>>), Segment(<<0, 0>>, <<100, 0>>),
     Segment(<<0, 0>>, <<0, 1000>>), Segment(<<40, 30>>, <<0, 0>>)}

ContainsPoints ==
    {<<x, y>> : x \in {-100, 0, 50, 500, 1000, 1100}, y \in {-20, -10, -5, 0, 5, 10, 20}}

CallContains ==
    /\ call = NoCall
    /\ \E seg \in ContainsSegments, p \in ContainsPoints :
        call' = [fn |-> "contains", args |-> <<seg, p>>,
                 result |-> contains(seg, p)]
    /\ UNCHANGED <<worldVars, gameVars>>

NextContains == CallContains

SpecContains == Init /\ [][NextContains]_vars

----------------------------------------------------------------------------
\* Calls of the line intersection routines on segments between a few points

IntersectionPoints == {<<0, 0>>, <<10, 0>>, <<5, -5>>, <<5, 5>>, <<0, 1>>, <<10, 1>>}

IntersectionSegments == {Segment(s, e) : s \in IntersectionPoints, e \in IntersectionPoints}

CallLineIntersection ==
    /\ call = NoCall
    /\ \E seg \in IntersectionSegments, other \in IntersectionSegments :
        call' = [fn |-> "Segment::line_intersection", args |-> <<seg, other>>,
                 result |-> line_intersection_at(seg, other)]
    /\ UNCHANGED <<worldVars, gameVars>>

CallIntersection ==
    /\ call = NoCall
    /\ \E seg \in IntersectionSegments, other \in IntersectionSegments :
        call' = [fn |-> "Line::intersection", args |-> <<seg, other>>,
                 result |-> intersection_at(LineThrough(seg.start, seg.end),
                                            LineThrough(other.start, other.end))]
    /\ UNCHANGED <<worldVars, gameVars>>

NextIntersection ==
    \/ CallLineIntersection
    \/ CallIntersection

SpecIntersection == Init /\ [][NextIntersection]_vars

--------------------------------------------------------------------------------
\* Families: dolls get a FamilySync and the system runs once per frame

\* A doll is spawned with FamilySync(f), or its FamilySync is replaced
InsertFamilySync ==
    /\ ~panicked
    /\ \E d \in DollIds, f \in FamilyIds :
        /\ family_sync' = [family_sync EXCEPT ![d] = f]
        /\ sync_changed' = sync_changed \cup {d}
    /\ UNCHANGED <<family, dolls, has_dolls, panicked, worldVars, call, taskVars, trackerVars, lotVars>>

\* One frame: family_sync_system, then its commands are applied
FamilySyncFrame ==
    /\ ~panicked
    /\ sync_changed # {}
    /\ \E order \in Orders(sync_changed) :
        LET st == family_sync_loop(SyncState(dolls, <<>>, FALSE), has_dolls, order)
            world == apply_family_commands(
                         [family |-> family, dolls |-> st.dolls, has_dolls |-> has_dolls],
                         st.commands)
        IN  IF st.failed
            THEN /\ panicked' = TRUE
                 /\ UNCHANGED <<family, dolls, has_dolls, sync_changed>>
            ELSE /\ family' = world.family
                 /\ dolls' = world.dolls
                 /\ has_dolls' = world.has_dolls
                 /\ sync_changed' = {}
                 /\ UNCHANGED panicked
    /\ UNCHANGED <<family_sync, worldVars, call, taskVars, trackerVars, lotVars>>

NextFamily ==
    \/ InsertFamilySync
    \/ FamilySyncFrame

SpecFamily == Init /\ [][NextFamily]_vars

--------------------------------------------------------------------------------
\* Linked tasks: links and states change between frames, PostUpdate runs the plugin

\* LinkedTask(b) is inserted on a task
InsertLinkedTask ==
    /\ ~task_failed
    /\ \E a \in Tasks, b \in Tasks :
        /\ a # b
        /\ linked[a] = NoTask
        /\ linked[b] = NoTask
        /\ linked' = [linked EXCEPT ![a] = b]
        /\ link_added' = link_added \cup {a}
    /\ UNCHANGED <<task_state, state_changed, task_failed, worldVars, call, familyVars, trackerVars, lotVars>>

\* The TaskState of a task is written
SetTaskState ==
    /\ ~task_failed
    /\ \E t \in Tasks, s \in TaskStates :
        /\ task_state' = [task_state EXCEPT ![t] = s]
        /\ state_changed' = state_changed \cup {t}
    /\ UNCHANGED <<linked, link_added, task_failed, worldVars, call, familyVars, trackerVars, lotVars>>

\* PostUpdate: insert_links and sync_states, then the commands of insert_links
PostUpdate ==
    /\ ~task_failed
    /\ link_added # {} \/ state_changed # {}
    /\ \E added \in Orders(link_added),
          order \in Orders({t \in state_changed : linked[t] # NoTask}) :
        LET st == sync_states(task_state, linked, order)
            links == insert_links(linked, added)
        IN  IF st.failed
            THEN /\ task_failed' = TRUE
                 /\ UNCHANGED <<task_state, linked, link_added, state_changed>>
            ELSE /\ task_state' = st.states
                 /\ linked' = links
                 /\ link_added' = {t \in Tasks : linked[t] = NoTask /\ links[t] # NoTask}
                 /\ state_changed' = {}
                 /\ UNCHANGED task_failed
    /\ UNCHANGED <<worldVars, call, familyVars, trackerVars, lotVars>>

NextTask ==
    \/ InsertLinkedTask
    \/ SetTaskState
    \/ PostUpdate

SpecTask == Init /\ [][NextTask]_vars

--------------------------------------------------------------------------------
\* Despawn tracking: the world changes between updates; in an update each of
\* the three systems runs once, in any order, each with a change tick of its own

BetweenUpdates == ran = {}

OtherGameVars == <<worldVars, call, familyVars, taskVars, lotVars>>

\* An entity is spawned with Replication
SpawnReplicated ==
    /\ BetweenUpdates
    /\ \E e \in Replicated :
        /\ replicated[e] = "none"
        /\ replicated' = [replicated EXCEPT ![e] = "alive"]
        /\ new_replicated' = new_replicated \cup {e}
    /\ UNCHANGED <<tracked_entities, despawns, client_acks, change_tick, ran, OtherGameVars>>

\* A replicated entity is despawned
DespawnReplicated ==
    /\ BetweenUpdates
    /\ \E e \in Replicated :
        /\ replicated[e] = "alive"
        /\ replicated' = [replicated EXCEPT ![e] = "despawned"]
        /\ new_replicated' = new_replicated \ {e}
    /\ UNCHANGED <<tracked_entities, despawns, client_acks, change_tick, ran, OtherGameVars>>

\* A client acknowledges the current tick (its first acknowledgement adds it)
Acknowledge ==
    /\ BetweenUpdates
    /\ \E c \in Clients :
        /\ client_acks[c] < change_tick
        /\ client_acks' = [client_acks EXCEPT ![c] = change_tick]
    /\ UNCHANGED <<replicated, new_replicated, tracked_entities, despawns, change_tick, ran,
                   OtherGameVars>>

\* A client disconnects and leaves AckedTicks
Disconnect ==
    /\ BetweenUpdates
    /\ \E c \in Clients :
        /\ client_acks[c] # NoAck
        /\ client_acks' = [client_acks EXCEPT ![c] = NoAck]
    /\ UNCHANGED <<replicated, new_replicated, tracked_entities, despawns, change_tick, ran,
                   OtherGameVars>>

\* The systems that have run after one more; the update ends with the third
RanWith(system) == IF ran \cup {system} = TrackerSystems THEN {} ELSE ran \cup {system}

CanRun(system) == system \notin ran /\ change_tick < 3 * MaxUpdates

entity_tracking_system ==
    /\ CanRun("entity_tracking_system")
    /\ tracked_entities' = tracked_entities \cup new_replicated
    /\ new_replicated' = {}
    /\ change_tick' = change_tick + 1
    /\ ran' = RanWith("entity_tracking_system")
    /\ UNCHANGED <<replicated, despawns, client_acks, OtherGameVars>>

\* cleanup_system of despawn_tracker.rs
despawn_cleanup_system ==
    /\ CanRun("cleanup_system")
    /\ despawns' = cleanup(despawns, client_acks)
    /\ change_tick' = change_tick + 1
    /\ ran' = RanWith("cleanup_system")
    /\ UNCHANGED <<replicated, new_replicated, tracked_entities, client_acks, OtherGameVars>>

detection_system ==
    /\ CanRun("detection_system")
    /\ \E order \in Orders(missing_entities(tracked_entities, replicated)) :
        despawns' = despawns \o detection_pushed(order, change_tick + 1)
    /\ tracked_entities' = detection_retained(tracked_entities, replicated)
    /\ change_tick' = change_tick + 1
    /\ ran' = RanWith("detection_system")
    /\ UNCHANGED <<replicated, new_replicated, client_acks, OtherGameVars>>

NextTracker ==
    \/ SpawnReplicated
    \/ DespawnReplicated
    \/ Acknowledge
    \/ Disconnect
    \/ entity_tracking_system
    \/ despawn_cleanup_system
    \/ detection_system

SpecTracker == Init /\ [][NextTracker]_vars

--------------------------------------------------------------------------------
\* Lot creation: one action per frame of the Update schedule in LotTool::Create,
\* by the buttons pressed in it; the systems of a frame run in any order

LotPoints == {<<0, 0>>, <<5, 0>>, <<100, 0>>, <<0, 100>>}

Hovers == LotPoints \cup {NoHover}

NotLotVars == <<worldVars, call, familyVars, taskVars, trackerVars>>

\* A frame with no button pressed: set_vertex_position
CursorMove ==
    /\ creating_lot
    /\ \E hover \in Hovers : lot_vertices' = set_vertex_position(lot_vertices, hover)
    /\ UNCHANGED <<creating_lot, lot_create, NotLotVars>>

\* A frame with Confirm pressed and no lot being created: start_creation
StartCreation ==
    /\ ~creating_lot
    /\ \E hover \in Hovers :
        IF hover = NoHover
        THEN UNCHANGED <<creating_lot, lot_vertices>>
        ELSE /\ creating_lot' = TRUE
             /\ lot_vertices' = <<hover, hover>>
    /\ UNCHANGED <<lot_create, NotLotVars>>

\* A frame with Confirm pressed while a lot is being created:
\* set_vertex_position and confirm, in either order
ConfirmPressed ==
    /\ creating_lot
    /\ Len(lot_vertices) < MaxVertices
    /\ \E hover \in Hovers, confirm_first \in BOOLEAN :
        LET moved == set_vertex_position(lot_vertices, hover)
            confirmed == IF confirm_first THEN confirm(lot_vertices) ELSE confirm(moved)
        IN  /\ lot_vertices' = IF confirm_first
                               THEN set_vertex_position(confirmed.vertices, hover)
                               ELSE confirmed.vertices
            /\ lot_create' = IF confirmed.sent = NoPolygon THEN lot_create ELSE confirmed.sent
    /\ UNCHANGED <<creating_lot, NotLotVars>>

\* A frame with Cancel pressed, or LotEventConfirmed received: end_creation
EndCreation ==
    /\ creating_lot
    /\ creating_lot' = FALSE
    /\ lot_vertices' = <<>>
    /\ UNCHANGED <<lot_create, NotLotVars>>

NextLot ==
    \/ CursorMove
    \/ StartCreation
    \/ ConfirmPressed
    \/ EndCreation

SpecLot == Init /\ [][NextLot]_vars

----------------------------------------------------------------------------
\* Properties of the connectivity graph

\* The state right after a reconciliation pass, before any further edit.
AfterPass == edits = 0 /\ changed = {} /\ removed = <<>>

\* Positions <<kind, index>> of the records of a that reference b
Refs(a, b) ==
    {ref \in ({"Start"} \X DOMAIN conns[a].start) \cup ({"End"} \X DOMAIN conns[a].end) :
        get(conns[a], ref[1])[ref[2]].entity = b}

RecordAt(a, ref) == get(conns[a], ref[1])[ref[2]]

Takes(e) == e \in alive /\ ~is_zero(segs[e]) /\ vis[e] # "Hidden"

SharePoint(a, b) == pairing(segs[a], segs[b])[1] # "None"

Connected(a, b) == Refs(a, b) # {} /\ Refs(b, a) # {}

\* C1: after every pass, a record of A referencing B is answered by exactly
\* one record of B referencing A, stored in B's list for the endpoint kind
\* named in A's record and naming the kind of the A list that holds A's record.
ConnectivitySymmetry ==
    AfterPass =>
        \A a, b \in Entities : \A ref \in Refs(a, b) :
            /\ Cardinality(Refs(b, a)) = 1
            /\ \A back \in Refs(b, a) :
                /\ back[1] = RecordAt(a, ref).kind
                /\ RecordAt(b, back).kind = ref[1]

\* C1 witness: two segments hold records of each other after a pass.
SymmetryWitness ==
    /\ AfterPass
    /\ \E a, b \in alive : a # b /\ Refs(a, b) # {} /\ Refs(b, a) # {}

\* C2: once a segment is removed (the OnRemove observer has run), no
\* surviving segment's Start or End list holds a record referencing it.
RemovalTeardown ==
    \A a \in alive : \A k \in PointKind : \A i \in 1..Len(get(conns[a], k)) :
        get(conns[a], k)[i].entity \in alive

\* C2 witness: a segment that was connected through its End has been removed,
\* and its former neighbour survives without a record.
TeardownWitness ==
    /\ spawned = 2
    /\ edits = 1
    /\ 1 \in alive /\ 2 \notin alive
    /\ ~is_zero(segs[1])
    /\ conns[1] = EmptyConnections
    /\ changed = {}

\* C2 for wall.rs: cleanup_system of the next pass removes the records.
WallRemovalTeardown == AfterPass => RemovalTeardown

\* C3: in every reachable state a segment holds at most one record per
\* other segment, its Start and End lists taken together.
AtMostOneConnectionPerPair ==
    \A a, b \in Entities : Cardinality(Refs(a, b)) <= 1

\* C3 witness: two segments sharing both endpoints, both changed in the same
\* pass, hold one record of each other.
SharedBothEndpointsWitness ==
    /\ AfterPass
    /\ \E a, b \in alive :
        /\ a # b
        /\ ~is_zero(segs[a])
        /\ segs[a] = segs[b] \/ segs[a] = inverse(segs[b])
        /\ Cardinality(Refs(a, b)) = 1

\* C4: after every pass any two distinct, visible, non-degenerate siblings
\* that share an endpoint hold records referencing each other.
ConnectionCompleteness ==
    AfterPass =>
        \A a, b \in alive :
            (a # b /\ Takes(a) /\ Takes(b) /\ SharePoint(a, b)) => Connected(a, b)

\* C4 witness (segment.rs): the first child was the one edited last and is
\* connected to the second child.
CompletenessWitness ==
    /\ AfterPass
    /\ alive = {1, 2}
    /\ Takes(1) /\ Takes(2) /\ SharePoint(1, 2) /\ Connected(1, 2)

\* C5: after every pass a zero-length segment has empty lists and no segment
\* holds a record referencing a zero-length segment.
ZeroLengthExcluded ==
    AfterPass =>
        \A z \in alive : is_zero(segs[z]) =>
            /\ conns[z] = EmptyConnections
            /\ \A a \in Entities : Refs(a, z) = {}

\* C6: after every pass a Hidden segment has empty lists and no segment holds
\* a record referencing it; a segment that is visible (again) and non-degenerate
\* is connected to every visible non-degenerate sibling sharing an endpoint.
HiddenExcluded ==
    AfterPass =>
        /\ \A h \in alive : vis[h] = "Hidden" =>
            /\ conns[h] = EmptyConnections
            /\ \A a \in Entities : Refs(a, h) = {}
        /\ \A a, b \in alive :
            (a # b /\ Takes(a) /\ Takes(b) /\ SharePoint(a, b)) => Connected(a, b)

\* C6 witness: a hidden segment shares an endpoint with a visible sibling
\* that has no record of it.
HiddenWitness ==
    /\ AfterPass
    /\ \E h, a \in alive :
        /\ h # a
        /\ vis[h] = "Hidden" /\ ~is_zero(segs[h])
        /\ Takes(a) /\ SharePoint(a, h)
        /\ conns[a] = EmptyConnections

----------------------------------------------------------------------------
\* Properties of the generated mesh

Fresh == stale = 0

HasHole == \E i \in 1..Len(apertures) : apertures[i].hole

HasCutout == \E i \in 1..Len(apertures) : ~apertures[i].hole

\* Triangles of the index buffer, as triples of vertex indices
Triangles == [k \in 1..(Len(mesh.indices) \div 3) |->
                <<mesh.indices[3 * k - 2], mesh.indices[3 * k - 1], mesh.indices[3 * k]>>]

\* Vertices before the caps: the top quad and the two sides
BodyVertices == 4 + 2 * (4 + CutoutLen * Len(apertures))

CapVertices(fit) == IF fit = "NoElements" THEN 4 ELSE IF fit = "OneElement" THEN 0 ELSE 1

StartFit == minmax_angles(wall_connections.start)

EndFit == minmax_angles(wall_connections.end)

\* Triangles with a corner among the vertices first..(first + count - 1)
TrianglesAt(first, count) ==
    {k \in DOMAIN Triangles : \E c \in 1..3 :
        Triangles[k][c] >= first /\ Triangles[k][c] < first + count}

\* C7: after every generate call positions, uvs and normals have equal length
\* and every index is smaller than the number of positions.
MeshBufferConsistency ==
    /\ Len(mesh.positions) = Len(mesh.uvs)
    /\ Len(mesh.uvs) = Len(mesh.normals)
    /\ \A k \in DOMAIN mesh.indices :
            mesh.indices[k] >= 0 /\ mesh.indices[k] < Len(mesh.positions)

\* a mesh generated with holes, cutouts and a joint of 3+ walls
ConsistencyWitness ==
    /\ Fresh /\ ~is_zero(wall)
    /\ HasHole /\ HasCutout
    /\ StartFit = "MinMax" /\ EndFit = "NoElements"
    /\ Len(mesh.positions) = BodyVertices + 5

\* The cap of one end: count vertices from first, of the class fit; corner_a
\* and corner_b are the indices of the top corners of that end, raw its endpoint.
CapShape(fit, first, corner_a, corner_b, raw) ==
    LET at == TrianglesAt(first, CapVertices(fit)) IN
    /\ fit = "NoElements" =>
            /\ Cardinality(at) = 2
            /\ \A k \in at : \A c \in 1..3 :
                    Triangles[k][c] >= first /\ Triangles[k][c] < first + 4
    /\ fit = "OneElement" => at = {}
    /\ fit = "MinMax" =>
            /\ mesh.positions[first + 1] = <<raw_point(raw), "HEIGHT">>
            /\ Cardinality(at) = 1
            /\ \A k \in at :
                    {Triangles[k][c] : c \in 1..3} = {first, corner_a, corner_b}

\* C8: the cap of each end of a non-degenerate segment follows the number of
\* neighbours there: none gives a quad of 4 vertices and 2 triangles, one
\* gives nothing, two or more give one vertex at the raw endpoint and one
\* triangle joining it to the two top corners of that end.
EndCapBranching ==
    (Fresh /\ ~is_zero(wall)) =>
        LET start_points == offset_points(wall, StartFit, "width")
            end_points == offset_points(inverse(wall), EndFit, "-width")
        IN
        /\ Len(mesh.positions) = BodyVertices + CapVertices(StartFit) + CapVertices(EndFit)
        /\ mesh.positions[1] = <<start_points[1], "HEIGHT">>
        /\ mesh.positions[2] = <<start_points[2], "HEIGHT">>
        /\ mesh.positions[3] = <<end_points[1], "HEIGHT">>
        /\ mesh.positions[4] = <<end_points[2], "HEIGHT">>
        /\ CapShape(StartFit, BodyVertices, 0, 1, wall.start)
        /\ CapShape(EndFit, BodyVertices + CapVertices(StartFit), 2, 3, wall.end)
        /\ TrianglesAt(BodyVertices, CapVertices(StartFit))
                \cap TrianglesAt(BodyVertices + CapVertices(StartFit), CapVertices(EndFit)) = {}

\* a joint of 3+ walls at both ends of a generated wall
FanWitness ==
    /\ Fresh /\ ~is_zero(wall)
    /\ StartFit = "MinMax" /\ EndFit = "MinMax"
    /\ Len(mesh.positions) = BodyVertices + 2

\* a free-standing wall: 8 cap vertices, 4 cap triangles
FreeStandingCaps ==
    /\ Fresh /\ ~is_zero(wall)
    /\ StartFit = "NoElements" /\ EndFit = "NoElements"
    /\ Len(mesh.positions) = BodyVertices + 8
    /\ Cardinality(TrianglesAt(BodyVertices, 8)) = 4

\* C9: generating the mesh of a segment with start = end leaves positions, uvs,
\* normals and indices empty, whatever the buffers held before.
DegenerateGivesEmptyMesh ==
    (Fresh /\ is_zero(wall)) => mesh = DefaultMesh

\* an empty mesh of a degenerate wall that was meshed before (the triangulator
\* still holds the indices of that generation)
DegenerateAfterGeometry ==
    /\ Fresh /\ is_zero(wall)
    /\ mesh = DefaultMesh
    /\ triangulator.indices # <<>>

\* C10: a generate call with the segment, connections and apertures of the
\* previous call leaves the mesh buffers and the triangulator as they were.
GenerateIdempotent ==
    [][(stale = 0 /\ stale' = 0) => (mesh' = mesh /\ triangulator' = triangulator)]_vars

\* a generated mesh of a wall with a hole, on which generate can run again
IdempotenceWitness ==
    /\ Fresh /\ ~is_zero(wall)
    /\ HasHole
    /\ mesh.indices # <<>>
    /\ triangulator.indices # <<>>
    /\ generate(mesh, triangulator, wall, wall_connections, apertures).mesh = mesh

----------------------------------------------------------------------------
\* Properties of the frame of wall.rs

\* Walls whose lists hold, before or after the step, a record of a wall the
\* frame updates or cleans up
NeighbourOfChange(e) ==
    \E c \in changed \cup {removed[i] : i \in DOMAIN removed} :
        c # e /\ (c \in connected_entities(conns[e]) \/ c \in connected_entities(conns'[e]))

\* The steps of WallFrame: every other action leaves a changed wall, a removal
\* to read or a counted edit behind
FrameStep == changed' = {} /\ removed' = <<>> /\ edits' = 0

\* C11: in a frame every wall that changed, and every wall whose lists gained
\* or lost a record, is regenerated from its components as they stand after
\* the connections update; no other wall is regenerated.
RegenerationFollowsChange ==
    [][FrameStep =>
        /\ DOMAIN regenerated' \subseteq alive
        /\ \A e \in alive :
            /\ (e \in changed \/ NeighbourOfChange(e) \/ conns'[e] # conns[e])
                    <=> e \in DOMAIN regenerated'
            /\ e \in DOMAIN regenerated' =>
                    regenerated'[e] = regenerate(segs'[e], conns'[e])]_vars

\* a wall that did not change itself was regenerated with its new connections
NeighbourRegenerated ==
    \E e \in (DOMAIN regenerated) \ updated :
        /\ e \in alive
        /\ regenerated[e].connections = conns[e]
        /\ regenerated[e].mesh # DefaultMesh

----------------------------------------------------------------------------
\* Offset points

OffsetCalls == {"wall_mesh::offset_points", "Segment::offset_points", "wall::offset_points"}

NoIntersection(segment, connections, neighbour) ==
    \/ connections.fit = "NoElements"
    \/ perp_dot(displacement(segment), displacement(neighbour)) = 0

LeftFallsBack ==
    LET segment == call.args[1]
        connections == call.args[2]
        width == call.args[3]
    IN  NoIntersection(segment, connections, connections.max)
            => call.result[1] = simple_offset(segment.start, width)

RightFallsBack ==
    LET segment == call.args[1]
        connections == call.args[2]
        width == call.args[3]
    IN  NoIntersection(segment, connections, connections.min)
            => call.result[2] = simple_offset(segment.start, -width)

\* C12: when there is no neighbour, or the offset line of the segment is
\* parallel to the offset line of the relevant neighbour, offset_points returns
\* start + width as the left point and start - width as the right point.
OffsetFallback == call.fn \in OffsetCalls => LeftFallsBack /\ RightFallsBack

\* The left point falls back to start + width in the three generators.
LeftOffsetFallback == call.fn \in OffsetCalls => LeftFallsBack

\* The right point falls back to start - width in segment.rs and in wall.rs.
RightOffsetFallbackOutsideWallMesh ==
    call.fn \in {"Segment::offset_points", "wall::offset_points"} => RightFallsBack

\* With no neighbour the right point of wall_mesh.rs is start - width as well.
RightOffsetWithoutNeighbour ==
    (call.fn = "wall_mesh::offset_points" /\ call.args[2].fit = "NoElements") => RightFallsBack

\* A straight continuation reached wall_mesh.rs and the right point is start + width.
RightFallbackOnLeftSide ==
    /\ call.fn = "wall_mesh::offset_points"
    /\ call.args[1] = Segment(<<1, 0>>, <<2, 0>>)
    /\ call.args[2] = MinMaxResult("OneElement", Segment(<<1, 0>>, <<0, 0>>), Segment(<<1, 0>>, <<0, 0>>))
    /\ call.args[3] = 1
    /\ call.result[2] = simple_offset(<<1, 0>>, 1)

----------------------------------------------------------------------------
\* Pairing of endpoints

PairingOrder ==
    << <<"Start", "Start">>, <<"Start", "End">>, <<"End", "End">>, <<"End", "Start">> >>

PairingHolds(s, o, i) ==
    point(segs[s], PairingOrder[i][1]) = point(segs[o], PairingOrder[i][2])

RecordsOf(c, kind, b) == SelectSeq(get(c, kind), LAMBDA r : r.entity = b)

\* The records that the test of sibling o by the update of s leaves in both components
PairingOutcome(s, o) ==
    IF \E i \in 1..4 : PairingHolds(s, o, i)
    THEN LET first == CHOOSE i \in 1..4 :
                        PairingHolds(s, o, i) /\ \A j \in 1..(i - 1) : ~PairingHolds(s, o, j)
             from == PairingOrder[first][1]
             to == PairingOrder[first][2]
         IN  /\ RecordsOf(conns'[s], from, o) = <<SegmentConnection(o, segs[o], to)>>
             /\ RecordsOf(conns'[s], kind_inverse(from), o) = <<>>
             /\ RecordsOf(conns'[o], to, s) = <<SegmentConnection(s, segs[s], from)>>
             /\ RecordsOf(conns'[o], kind_inverse(to), s) = <<>>
    ELSE \A kind \in PointKind :
            RecordsOf(conns'[s], kind, o) = <<>> /\ RecordsOf(conns'[o], kind, s) = <<>>

\* The step is a pass that updates the single changed segment s
UpdateOf(s) == changed = {s} /\ changed' = {} /\ edits' = 0

\* C13: the update of changed segment S tests a sibling O with the pairings
\* start-start, start-end, end-end, end-start in this order; the first that
\* holds gives S's list of its matched endpoint the record (O, O's matched
\* kind) and O's list of its matched endpoint the record (S, S's matched
\* kind), and nothing else; without a pairing no record is created.
PairingPriority ==
    [][\A s, o \in alive :
        (UpdateOf(s) /\ o # s /\ Takes(s) /\ vis[o] # "Hidden") => PairingOutcome(s, o)]_vars

\* wall.rs tests the siblings that precede the changed wall in Children.
WallPairingPriority ==
    [][\A s, o \in alive :
        (UpdateOf(s) /\ ~is_zero(segs[s])
            /\ \E i, j \in DOMAIN children : i < j /\ children[i] = o /\ children[j] = s)
        => PairingOutcome(s, o)]_vars

\* C13 witness: two segments with both endpoints in common are connected by
\* the start-start pairing alone.
FirstPairingOnly ==
    /\ AfterPass
    /\ \E a, b \in alive :
        /\ a # b /\ segs[a] = segs[b] /\ Takes(a) /\ Takes(b)
        /\ Refs(a, b) = {<<"Start", 1>>} /\ RecordAt(a, <<"Start", 1>>).kind = "Start"
        /\ Refs(b, a) = {<<"Start", 1>>} /\ RecordAt(b, <<"Start", 1>>).kind = "Start"

----------------------------------------------------------------------------
\* Direction unification

\* C14: after a pass, the unified segment of every record stored at endpoint
\* k of segment A starts at A.point(k) and ends at the other endpoint of the
\* neighbour; it is the inverse of the snapshot exactly when the record says
\* that the neighbour touches the joint with its End.
DirectionUnified ==
    AfterPass =>
        \A a \in alive : \A k \in PointKind : \A i \in DOMAIN get(conns[a], k) :
            LET record == get(conns[a], k)[i]
                u == get_unified(conns[a], k)[i]
            IN  /\ u.start = point(segs[a], k)
                /\ u.end = point(segs[record.entity], kind_inverse(record.kind))
                /\ u = IF record.kind = "End" THEN inverse(record.segment) ELSE record.segment

\* C14 witness: a neighbour of non-zero length touches the joint with its End
\* of the segment and its snapshot is inverted.
InvertedNeighbour ==
    /\ AfterPass
    /\ \E a \in alive : \E k \in {"End"} : \E i \in DOMAIN get(conns[a], k) :
        LET record == get(conns[a], k)[i]
        IN  /\ record.kind = "End"
            /\ ~is_zero(record.segment)
            /\ get_unified(conns[a], k)[i] = inverse(record.segment)
            /\ get_unified(conns[a], k)[i] # record.segment

----------------------------------------------------------------------------
\* Collider

\* The apertures of the call that are neither holes nor placing previews
SplittingApertures ==
    SelectSeq(call.args[2], LAMBDA aperture : ~aperture.hole /\ ~aperture.placing_object)

\* Cuboids of the returned trimesh, one per block of 8 vertices
CuboidCount == Len(call.result.vertices) \div 8

CuboidVertices(j) == {call.result.vertices[v] : v \in (8 * (j - 1) + 1)..(8 * j)}

\* The block j starts at point from and ends at point to, left and right, ground and top.
CuboidSpans(j, from, to) ==
    CuboidVertices(j) =
        {Vertex(side, at, y) : side \in {"left", "right"}, at \in {from, to}, y \in {"0.0", "HEIGHT"}}

\* C15: for k apertures that are neither holes nor placing previews the
\* collider has k + 1 cuboids, whatever holes and previews lie between them:
\* from the wall start to the first, between consecutive ones, and from the
\* last to the wall end.
ColliderSegmentation ==
    call.fn = "generate_collider" =>
        LET k == Len(SplittingApertures)
            wall_segment == call.args[1]
            from(j) == IF j = 1 THEN Along(wall_segment.start, 0)
                       ELSE Along(SplittingApertures[j - 1].translation, CutoutLen)
            to(j) == IF j = k + 1 THEN Along(wall_segment.end, 0)
                     ELSE Along(SplittingApertures[j].translation, 1)
        IN  /\ Len(call.result.vertices) = 8 * (k + 1)
            /\ \A j \in 1..(k + 1) : CuboidSpans(j, from(j), to(j))

\* C15 witness: one placed object next to a hole or a placing preview gave
\* exactly 2 cuboids.
TwoCuboids ==
    /\ call.fn = "generate_collider"
    /\ Len(call.args[2]) = 2
    /\ Len(SplittingApertures) = 1
    /\ CuboidCount = 2

\* Triangles of cuboid j of the returned trimesh, by the vertices they refer to
OwnTriangles(j) ==
    {i \in DOMAIN call.result.indices :
        \A c \in 1..3 : call.result.indices[i][c] \in (8 * (j - 1))..(8 * j - 1)}

CuboidLayout(triangles) ==
    call.fn = "generate_collider" =>
        /\ Len(call.result.indices) = triangles * CuboidCount
        /\ Len(call.result.vertices) = 8 * CuboidCount
        /\ \A j \in 1..CuboidCount :
            /\ Cardinality(OwnTriangles(j)) = triangles
            /\ OwnTriangles(j) = (triangles * (j - 1) + 1)..(triangles * j)

\* C16 as stated: each cuboid contributes 8 vertices and 12 triangles.
CuboidTwelveTriangles == CuboidLayout(12)

\* C16: each cuboid contributes 8 vertices and 10 triangles (top, left, right,
\* back, front), and every index of its triangles refers to one of its own 8
\* vertices, offset by the number of vertices emitted before it.
CuboidTenTriangles == CuboidLayout(10)

\* C16 witness: the second cuboid of a collider, its indices offset by 8.
SecondCuboid ==
    /\ call.fn = "generate_collider"
    /\ CuboidCount >= 2
    /\ call.result.indices[11] = <<13, 12, 14>>

----------------------------------------------------------------------------
\* Triangulator

\* C17: the start index given to add_hole is appended to the holes registered
\* since the last triangulate call; triangulate hands all of them to the
\* ear-clipper and leaves none, so a triangulate call that directly follows
\* another one passes no hole.
HoleLifetime ==
    [][/\ call'.fn = "add_hole" =>
            triangulator'.hole_indices = Append(triangulator.hole_indices, call'.args[1])
       /\ call'.fn = "triangulate" =>
            /\ call'.result.hole_indices = triangulator.hole_indices
            /\ triangulator'.hole_indices = <<>>
       /\ (call.fn = "triangulate" /\ call'.fn = "triangulate") =>
            call'.result.hole_indices = <<>>]_vars

\* C17 witness: two registered holes were passed to triangulate and cleared.
HolesPassedAndCleared ==
    /\ call.fn = "triangulate"
    /\ call.result.hole_indices = <<4, 8>>
    /\ triangulator.hole_indices = <<>>

Projected(to) ==
    call.fn = "triangulate" =>
        /\ Len(call.result.points) = Len(call.args[1])
        /\ \A i \in DOMAIN call.args[1] :
            call.result.points[i] = <<call.args[1][i][1], call.args[1][i][to]>>

\* C18 as stated: the ear-clipper is given [x, z] of each position.
ProjectionDropsY == Projected(3)

\* C18: the ear-clipper is given [x, y] of each position [x, y, z], the Z
\* component dropped.
ProjectionDropsZ == Projected(2)

\* C18 witness: a buffer whose points differ in y and z was triangulated.
ProjectedBuffer ==
    /\ call.fn = "triangulate"
    /\ \E i \in DOMAIN call.args[1] : call.args[1][i][2] # call.args[1][i][3]
    /\ call.result.indices # <<>>

\* The points handed to the ear-clipper are a convex quad without holes
ConvexQuadCall ==
    /\ call.fn = "triangulate"
    /\ call.result.hole_indices = <<>>
    /\ Len(call.result.points) = 4
    /\ LET pt(i) == call.result.points[((i - 1) % 4) + 1]
           turn(i) == perp_dot(<<pt(i + 1)[1] - pt(i)[1], pt(i + 1)[2] - pt(i)[2]>>,
                               <<pt(i + 2)[1] - pt(i + 1)[1], pt(i + 2)[2] - pt(i + 1)[2]>>)
       IN  (\A i \in 1..4 : turn(i) > 0) \/ (\A i \in 1..4 : turn(i) < 0)

\* How often point p is used as an index of the result
Uses(p) == Cardinality({k \in DOMAIN call.result.indices : call.result.indices[k] = p})

----------------------------------------------------------------------------
\* Containment

\* The point of the call is within 0.1 (10 hundredths) of the line of the segment
WithinTolerance ==
    LET disp == displacement(call.args[1])
        point_disp == <<call.args[2][1] - call.args[1].start[1],
                        call.args[2][2] - call.args[1].start[2]>>
    IN  abs(perp_dot(disp, point_disp)) <= 10 * whole_length(disp)

\* The projection of the point of the call falls within [0, squared length]
WithinSegment ==
    LET disp == displacement(call.args[1])
        point_disp == <<call.args[2][1] - call.args[1].start[1],
                        call.args[2][2] - call.args[1].start[2]>>
    IN  0 <= dot(disp, point_disp) /\ dot(disp, point_disp) <= length_squared(disp)

ContainsCall(seg, p) == call.fn = "contains" /\ call.args = <<seg, p>>

\* C20: contains is true iff the point lies within 0.1 perpendicular distance
\* of the line of the segment and projects within [0, squared length]; for
\* the segment (0,0)-(10,0) the point (5, 0.05) is contained, (5, 0.2) and
\* (11, 0) are not.
Containment ==
    /\ call.fn = "contains" => (call.result <=> (WithinTolerance /\ WithinSegment))
    /\ ContainsCall(Segment(<<0, 0>>, <<1000, 0>>), <<500, 5>>) => call.result
    /\ ContainsCall(Segment(<<0, 0>>, <<1000, 0>>), <<500, 20>>) => ~call.result
    /\ ContainsCall(Segment(<<0, 0>>, <<1000, 0>>), <<1100, 0>>) => ~call.result

\* On a segment of length 1 or more a contained point is within the tolerance
\* and within the segment; the points (5, 0.2) and (11, 0) are not contained
\* in (0,0)-(10,0).
ContainedIsWithin ==
    /\ (call.fn = "contains" /\ call.result
            /\ length_squared(displacement(call.args[1])) >= 100 * 100)
        => (WithinTolerance /\ WithinSegment)
    /\ ContainsCall(Segment(<<0, 0>>, <<1000, 0>>), <<500, 20>>) => ~call.result
    /\ ContainsCall(Segment(<<0, 0>>, <<1000, 0>>), <<1100, 0>>) => ~call.result

\* On a segment of length 1 the cross product is the perpendicular distance.
ContainmentOnUnitLength ==
    (call.fn = "contains" /\ length_squared(displacement(call.args[1])) = 100 * 100)
        => (call.result <=> (WithinTolerance /\ WithinSegment))

\* The point (5, 0.05) was tested against (0,0)-(10,0) and is not contained.
NearPointNotContained ==
    ContainsCall(Segment(<<0, 0>>, <<1000, 0>>), <<500, 5>>) /\ ~call.result

\* The point (0, 0.2) was tested against the segment (0.4,0.3)-(0,0) of length
\* 0.5 and is contained, at distance 0.16 from its line.
FarPointContained ==
    /\ ContainsCall(Segment(<<40, 30>>, <<0, 0>>), <<0, 20>>) /\ call.result
    /\ ~WithinTolerance

----------------------------------------------------------------------------
\* Line intersection

IntersectionCalls == {"Segment::line_intersection", "Line::intersection"}

\* The returned point lies on the infinite line through the segment
OnLineOf(seg) ==
    perp_dot(<<call.result.num[1] - seg.start[1] * call.result.den,
               call.result.num[2] - seg.start[2] * call.result.den>>,
             displacement(seg)) = 0

IntersectionCall(fn, seg, other) == call.fn = fn /\ call.args = <<seg, other>>

\* C21: line_intersection returns None exactly when the cross product of the
\* two displacements is 0, and otherwise the point that lies on both lines;
\* (0,0)-(10,0) and (5,-5)-(5,5) meet at (5,0), and (0,0)-(10,0) and
\* (0,1)-(10,1) have no intersection.
LineIntersection ==
    call.fn \in IntersectionCalls =>
        /\ call.result.kind = "None"
            <=> perp_dot(displacement(call.args[1]), displacement(call.args[2])) = 0
        /\ call.result.kind = "Some" =>
            /\ call.result.den # 0
            /\ OnLineOf(call.args[1])
            /\ OnLineOf(call.args[2])
        /\ call.args = <<Segment(<<0, 0>>, <<10, 0>>), Segment(<<5, -5>>, <<5, 5>>)>> =>
            /\ call.result.kind = "Some"
            /\ call.result.num = <<5 * call.result.den, 0>>
        /\ call.args = <<Segment(<<0, 0>>, <<10, 0>>), Segment(<<0, 1>>, <<10, 1>>)>> =>
            call.result.kind = "None"

\* C21 witness: Segment::line_intersection returned (5,0) for the crossing pair.
CrossingAtFiveZero ==
    /\ IntersectionCall("Segment::line_intersection",
                        Segment(<<0, 0>>, <<10, 0>>), Segment(<<5, -5>>, <<5, 5>>))
    /\ call.result.kind = "Some"
    /\ call.result.num = <<5 * call.result.den, 0>>


--------------------------------------------------------------------------------
\* Family membership

FamilySynced == sync_changed = {} /\ ~panicked

Occurrences(list, entity) == Cardinality({k \in 1..Len(list) : list[k] = entity})

\* C22: after family_sync_system has run and its commands are applied, every
\* doll whose FamilySync references a family is exactly once in the Dolls of
\* that family, and in the Dolls of no other family.
FamilyMembership ==
    FamilySynced =>
        \A d \in DollIds, f \in FamilyIds :
            /\ family_sync[d] = f => f \in has_dolls /\ Occurrences(dolls[f], d) = 1
            /\ family_sync[d] # f => Occurrences(dolls[f], d) = 0

\* What holds of the code: a Dolls vector never lists a doll twice nor a doll
\* of another family, so a moved doll is gone from its previous family.
DollsListOnlyMembers ==
    FamilySynced =>
        \A d \in DollIds, f \in FamilyIds :
            /\ Occurrences(dolls[f], d) <= 1
            /\ Occurrences(dolls[f], d) = 1 => family_sync[d] = f /\ family[d] = f

\* Two dolls were given the same family in the frame in which it got its Dolls
SpawnedTogether ==
    /\ FamilySynced
    /\ \E f \in FamilyIds : \A d \in DollIds : family_sync[d] = f /\ family[d] = f

\* The expect of the removal from the previous family fails
MissingFromPreviousFamily == panicked


--------------------------------------------------------------------------------
\* Linked tasks

\* PostUpdate has run sync_states to its end
Synced == ~task_failed /\ ~task_failed' /\ state_changed # {} /\ state_changed' = {}

MutuallyLinked(a, b) == a # b /\ linked[a] = b /\ linked[b] = a

\* C23: after each run of sync_states two tasks that reference each other hold
\* the same TaskState, whichever of them changed during the frame: one, the
\* other, or both.
LinkedStateSync ==
    [][Synced =>
        \A a \in Tasks, b \in Tasks :
            MutuallyLinked(a, b) /\ (a \in state_changed \/ b \in state_changed)
                => task_state'[a] = task_state'[b]]_vars

\* What holds of the code: when one task of the pair changed, or both changed
\* to the same state, the pair agrees after the run.
LinkedStateSyncOfOne ==
    [][Synced =>
        \A a \in Tasks, b \in Tasks :
            /\ MutuallyLinked(a, b)
            /\ a \in state_changed
            /\ b \in state_changed => task_state[b] = task_state[a]
            => task_state'[a] = task_state'[b] /\ task_state'[a] = task_state[a]]_vars

\* What the code does when both changed to different states: the states swap.
LinkedStateSwap ==
    [][Synced =>
        \A a \in Tasks, b \in Tasks :
            MutuallyLinked(a, b) /\ a \in state_changed /\ b \in state_changed
                => task_state'[a] = task_state[b] /\ task_state'[b] = task_state[a]]_vars

\* A mutually linked pair holds different states with nothing left to sync
SwappedPair ==
    /\ ~task_failed
    /\ state_changed = {}
    /\ link_added = {}
    /\ \E a \in Tasks, b \in Tasks :
        MutuallyLinked(a, b) /\ task_state[a] = "Active" /\ task_state[b] = "Cancelled"

\* The linked entity has no LinkedTask yet when the state of the task is synced
LinkedTaskMissing == task_failed


--------------------------------------------------------------------------------
\* Despawn tracking

Entries(list) == {list[k] : k \in 1..Len(list)}

\* Some client's last acknowledged tick is earlier than the tick
Unacknowledged(tick) == \E c \in Clients : client_acks[c] # NoAck /\ client_acks[c] < tick

CleanupRuns == "cleanup_system" \notin ran /\ change_tick' = change_tick + 1
                /\ ran' = RanWith("cleanup_system")

\* C24: cleanup_system keeps a recorded despawn while some client's last
\* acknowledged tick is earlier than its tick, removes it once no client's is,
\* and removes every despawn when AckedTicks is empty.
DespawnRetention ==
    [][CleanupRuns =>
        /\ \A d \in Entries(despawns) : d \in Entries(despawns') <=> Unacknowledged(d.tick)
        /\ Entries(despawns') \subseteq Entries(despawns)
        /\ (\A c \in Clients : client_acks[c] = NoAck) => despawns' = <<>>]_vars

\* cleanup_system has run on a despawn one client has acknowledged and another
\* has not, and has kept it
KeptForSlowClient ==
    /\ "cleanup_system" \in ran
    /\ \E d \in Entries(despawns) :
        /\ \E c \in Clients : client_acks[c] >= d.tick
        /\ \E c \in Clients : client_acks[c] # NoAck /\ client_acks[c] < d.tick

\* cleanup_system has removed the despawns every client has acknowledged
RemovedWhenAcknowledged ==
    /\ "cleanup_system" \in ran
    /\ despawns = <<>>
    /\ \E e \in Replicated : replicated[e] = "despawned" /\ e \notin tracked_entities
    /\ \A c \in Clients : client_acks[c] # NoAck

Recorded(list, e) == Cardinality({k \in 1..Len(list) : list[k].entity = e})

DetectionRuns == "detection_system" \notin ran /\ change_tick' = change_tick + 1
                  /\ ran' = RanWith("detection_system")

\* C25: detection_system records every tracked entity that has been despawned
\* exactly once, with the tick of the run, and stops tracking it; an entity
\* that still exists is never recorded and stays tracked; no entity is ever
\* recorded twice.
DespawnDetection ==
    [][/\ \A e \in Replicated : Recorded(despawns', e) <= 1
       /\ \A e \in Replicated : replicated'[e] = "alive" => Recorded(despawns', e) = 0
       /\ DetectionRuns =>
            \A e \in tracked_entities :
                IF replicated[e] = "despawned"
                THEN /\ Recorded(despawns', e) = 1
                     /\ [entity |-> e, tick |-> change_tick'] \in Entries(despawns')
                     /\ e \notin tracked_entities'
                ELSE e \in tracked_entities']_vars

\* A tracked entity was despawned and detection_system has recorded it
DespawnRecorded ==
    /\ "detection_system" \in ran
    /\ \E e \in Replicated :
        /\ replicated[e] = "despawned"
        /\ e \notin tracked_entities
        /\ Recorded(despawns, e) = 1
    /\ \E e \in Replicated : replicated[e] = "alive" /\ e \in tracked_entities


--------------------------------------------------------------------------------
\* Records against the current geometry

\* C26: after every pass, a record (B, k') in A's list for endpoint k means
\* that A.point(k) equals B.point(k') for the current segments of A and B.
ConnectionSoundness ==
    AfterPass =>
        \A a \in alive : \A k \in PointKind : \A i \in DOMAIN get(conns[a], k) :
            LET record == get(conns[a], k)[i]
            IN  /\ record.entity \in alive
                /\ point(segs[a], k) = point(segs[record.entity], record.kind)

\* C26 witness: after a pass the End of one segment holds a record of a
\* neighbour that starts at that point, away from the origin.
RecordAtSharedPoint ==
    /\ AfterPass
    /\ \E a \in alive : \E i \in DOMAIN conns[a].end :
        LET record == conns[a].end[i]
        IN  /\ record.kind = "Start"
            /\ segs[a].end = segs[record.entity].start
            /\ segs[a].end # <<0, 0>>

\* C27: after every pass, the snapshot stored in a connection record equals
\* the current segment of the neighbour it references.
SnapshotFreshness ==
    AfterPass =>
        \A a \in alive : \A k \in PointKind : \A i \in DOMAIN get(conns[a], k) :
            LET record == get(conns[a], k)[i]
            IN  record.segment = segs[record.entity]


\* C27 witness: after a pass two walls of non-zero length hold snapshots of
\* each other that equal their current segments.
SnapshotsOfBoth ==
    /\ AfterPass
    /\ \E a, b \in alive :
        /\ a # b
        /\ ~is_zero(segs[a]) /\ ~is_zero(segs[b])
        /\ \E ra \in Refs(a, b), rb \in Refs(b, a) :
            /\ RecordAt(a, ra).segment = segs[b]
            /\ RecordAt(b, rb).segment = segs[a]
            /\ segs[a] # segs[b]


--------------------------------------------------------------------------------
\* Records as a function of the geometry

\* The records of every segment as sets per endpoint
RecordSets(cs) ==
    [e \in Entities |->
        [start |-> {cs[e].start[i] : i \in DOMAIN cs[e].start},
         end |-> {cs[e].end[i] : i \in DOMAIN cs[e].end}]]

\* The pairs of segments that hold a record of each other
ConnectedPairs(cs) ==
    {pair \in Entities \X Entities :
        \E i \in DOMAIN (cs[pair[1]].start \o cs[pair[1]].end) :
            (cs[pair[1]].start \o cs[pair[1]].end)[i].entity = pair[2]}

\* C28: the record sets after a pass are a function of the geometry, the
\* visibility and the grouping: a pass in which any one segment counts as
\* changed, with nothing moved, leaves every record set as it is.
OrderIndependence ==
    AfterPass =>
        \A s \in alive : RecordSets(update_connections(conns, <<s>>)) = RecordSets(conns)

\* What holds of the code when no segment involved has zero length or is
\* hidden: which segments are connected does not depend on the segment that
\* changed.
ConnectedPairsIndependent ==
    AfterPass /\ (\A e \in alive : Takes(e)) =>
        \A s \in alive :
            ConnectedPairs(update_connections(conns, <<s>>)) = ConnectedPairs(conns)

\* Two segments share both endpoints and the records of the pair lie in the
\* lists chosen by the segment that changed last
SharedBothDependsOnChanged ==
    /\ AfterPass
    /\ \E a, b \in alive :
        /\ a # b
        /\ ~is_zero(segs[a])
        /\ segs[b] = inverse(segs[a])
        /\ RecordSets(update_connections(conns, <<a>>)) # RecordSets(update_connections(conns, <<b>>))


--------------------------------------------------------------------------------
\* Collider spans along the wall

\* Start and end of cuboid j of the returned trimesh, from its first and third vertex
CuboidStart(j) == call.result.vertices[8 * (j - 1) + 1].at

CuboidEnd(j) == call.result.vertices[8 * (j - 1) + 3].at

--------------------------------------------------------------------------------
\* Lot creation

Distinct(polygon) == Cardinality({polygon[k] : k \in DOMAIN polygon})

\* C30: the lot being created always has at least 2 vertices, and every
\* LotCreate event carries a polygon whose first and last vertices are equal
\* and that has at least three distinct vertices.
LotClosesPolygon ==
    /\ creating_lot => Len(lot_vertices) >= 2
    /\ lot_create # NoPolygon =>
        /\ lot_create[1] = lot_create[Len(lot_create)]
        /\ Distinct(lot_create) >= 3

\* What holds of the code: at least 2 vertices while creating, and a polygon
\* sent is closed and has at least 2 vertices.
LotClosed ==
    /\ creating_lot => Len(lot_vertices) >= 2
    /\ lot_create # NoPolygon =>
        /\ Len(lot_create) >= 2
        /\ lot_create[1] = lot_create[Len(lot_create)]

\* The initial pair of identical points was sent as the polygon of a lot
InitialPairSent == lot_create # NoPolygon /\ Len(lot_create) = 2 /\ Distinct(lot_create) = 1

\* A polygon of two distinct points, there and back, was sent
ThereAndBackSent == lot_create # NoPolygon /\ Len(lot_create) = 3 /\ Distinct(lot_create) = 2

====
